---- MODULE Spec2Model ----
(***************************************************************************)
(* Editor store selectors (packages/editor/src/store/selectors.js) of the  *)
(* block editor, modelled over the normalized editor state:                *)
(*   state.editor.present.{blocksByClientId, blockOrder, edits},           *)
(*   state.editor.isDirty, state.optimist, state.blockSelection,           *)
(*   state.currentPost, state.saving, state.settings,                      *)
(*   state.blockListSettings, state.preferences.insertUsage,               *)
(*   state.reusableBlocks.data.                                            *)
(* The selectors' own file is not part of src/; they are written here from *)
(* their documented behaviour and held against the states and expected     *)
(* values of the selector test file src/unnamed/part_000, which are kept   *)
(* as fixtures.                                                            *)
(*                                                                         *)
(* JavaScript values: client ids, block names and statuses are strings;    *)
(* '' (the top-level root key of blockOrder) is ROOT, null is NULL and     *)
(* undefined is UNDEFINED.  Array positions are 0-based as in the code.    *)
(***************************************************************************)
EXTENDS Integers, Sequences, FiniteSets, TLC

VARIABLES
    blocksByClientId,   \* state.editor.present.blocksByClientId
    blockOrder,         \* state.editor.present.blockOrder
    blockSelection,     \* state.blockSelection: [start, end]
    settings,           \* state.settings: [allowedBlockTypes, templateLock]
    blockListSettings,  \* state.blockListSettings
    insertUsage,        \* state.preferences.insertUsage
    reusableBlocks,     \* state.reusableBlocks.data
    post,               \* isDirty, optimist, currentPost, edits, saving
    refs,               \* object identities of the parts of the state
    cache,              \* the memoized selectors' caches
    called,             \* the selector applied last
    arg,                \* its argument (rootClientId / clientId / blockName)
    calledOn,           \* the state (and its identities) it was applied to
    result              \* the value it returned

vars == << blocksByClientId, blockOrder, blockSelection, settings,
           blockListSettings, insertUsage, reusableBlocks, post, refs, cache,
           called, arg, calledOn, result >>

ROOT == ""
NULL == "null"
UNDEFINED == "undefined"

\* ------------------------------------------------------------------ bounds
MaxBlocks == 4

ClientIdNames == << "clientId1", "clientId2", "clientId3", "clientId4",
                    "clientId5", "clientId6" >>
ClientIds == { ClientIdNames[i] : i \in 1..MaxBlocks }

\* ----------------------------------------------------------- array helpers
Range(q) == { q[i] : i \in 1..Len(q) }

\* Array.prototype.indexOf: 0-based position of x, -1 when absent.
IndexOf(q, x) ==
    IF x \in Range(q)
    THEN (CHOOSE i \in 1..Len(q) : q[i] = x /\ \A j \in 1..(i - 1) : q[j] # x) - 1
    ELSE 0 - 1

\* Array.prototype.slice( begin, end ): a negative index counts from the end
\* of the array; the elements at 0-based positions begin..end-1.
Slice(q, begin, end) ==
    LET rel(k) == IF k < 0
                  THEN (IF Len(q) + k < 0 THEN 0 ELSE Len(q) + k)
                  ELSE (IF k > Len(q) THEN Len(q) ELSE k)
        from == rel(begin)
        to   == rel(end)
    IN  IF from >= to THEN << >> ELSE [ i \in 1..(to - from) |-> q[from + i] ]

\* Sequences without repetition over S.
InjSeqs(S) ==
    UNION { { q \in [1..n -> S] : \A i, j \in 1..n : i # j => q[i] # q[j] }
            : n \in 0..Cardinality(S) }

\* ------------------------------------------------------------ the state
\* The store state handed to a selector.
state ==
    [ blocksByClientId  |-> blocksByClientId,
      blockOrder        |-> blockOrder,
      blockSelection    |-> blockSelection,
      settings          |-> settings,
      blockListSettings |-> blockListSettings,
      insertUsage       |-> insertUsage,
      reusableBlocks    |-> reusableBlocks,
      post              |-> post ]

\* The state a selector is applied to, with the identities of its parts.
Snapshot == [ state |-> state, refs |-> refs ]

NoSelection == [ start |-> NULL, end |-> NULL ]
NoSettings == [ allowedBlockTypes |-> [ isArray |-> FALSE, items |-> {} ], templateLock |-> UNDEFINED ]
\* A post attribute set: the attributes the model follows, undefined where
\* the object has no such key.
NoAttributes ==
    [ status |-> UNDEFINED, date |-> UNDEFINED, title |-> UNDEFINED,
      excerpt |-> UNDEFINED, content |-> UNDEFINED ]
\* state.autosave: null ( exists is FALSE ), or the stored autosave's fields.
NoAutosave ==
    [ exists |-> FALSE, title |-> UNDEFINED, excerpt |-> UNDEFINED,
      content |-> UNDEFINED ]
\* post.isDirty: state.editor.isDirty; post.optimist: state.optimist;
\* post.currentPost: state.currentPost; post.edits:
\* state.editor.present.edits; post.requesting: whether
\* state.saving.requesting is truthy; post.autosave: state.autosave.
NoPost ==
    [ isDirty |-> FALSE, optimist |-> << >>, currentPost |-> NoAttributes,
      edits |-> NoAttributes, requesting |-> FALSE, autosave |-> NoAutosave ]
EmptyMap == << >>
\* The identities of the objects of the state.  refs.blockListSettings[ id ]:
\* of state.blockListSettings[ id ]; refs.blocks[ id ]: of the block object
\* blocksByClientId[ id ]; refs.order[ id ]: of the list blockOrder[ id ];
\* refs.next: the next fresh identity.
NoRefs ==
    [ blockListSettings |-> EmptyMap, blocks |-> EmptyMap, order |-> EmptyMap,
      next |-> 1 ]
\* A memoized selector's cache: the dependants of the last call and the
\* results kept for them, by argument.
NoCache == [ lastDependants |-> << >>, entries |-> EmptyMap ]

\* ------------------------------------------------- block tree selectors
\* getBlockOrder( state, rootClientId ): the ordered child ids of a root,
\* the top-level list for no root, an empty list for an unknown root.
getBlockOrder(s, rootClientId) ==
    LET key == IF rootClientId \in { UNDEFINED, NULL } THEN ROOT ELSE rootClientId
    IN  IF key \in DOMAIN s.blockOrder THEN s.blockOrder[key] ELSE << >>

\* getBlockRootClientId( state, clientId ): the key of the order list that
\* holds clientId ('' at the top level), null when no list holds it.
getBlockRootClientId(s, clientId) ==
    IF \E r \in DOMAIN s.blockOrder : clientId \in Range(s.blockOrder[r])
    THEN CHOOSE r \in DOMAIN s.blockOrder : clientId \in Range(s.blockOrder[r])
    ELSE NULL

\* getBlockIndex( state, clientId, rootClientId )
getBlockIndex(s, clientId, rootClientId) ==
    IndexOf(getBlockOrder(s, rootClientId), clientId)

\* getBlockCount( state, rootClientId )
getBlockCount(s, rootClientId) == Len(getBlockOrder(s, rootClientId))

\* get( getBlock( state, clientId ), [ 'attributes', 'layout' ] )
getBlockLayout(s, clientId) ==
    IF clientId \in DOMAIN s.blocksByClientId
    THEN s.blocksByClientId[clientId].layout
    ELSE UNDEFINED

\* getBlockName( state, clientId ): null if there is no such block.
getBlockName(s, clientId) ==
    IF clientId \in DOMAIN s.blocksByClientId
    THEN s.blocksByClientId[clientId].name
    ELSE NULL

\* ---------------------------------------------------- selection selectors
\* getSelectedBlockClientId: the id when start = end, else null.
getSelectedBlockClientId(s) ==
    IF s.blockSelection.start # NULL
       /\ s.blockSelection.start = s.blockSelection.end
    THEN s.blockSelection.start
    ELSE NULL

\* getMultiSelectedBlockClientIds
getMultiSelectedBlockClientIds(s) ==
    LET start == s.blockSelection.start
        end   == s.blockSelection.end
    IN  IF start = NULL \/ end = NULL \/ start = end
        THEN << >>
        ELSE LET rootClientId == getBlockRootClientId(s, start)
             IN  IF rootClientId = NULL
                 THEN << >>
                 ELSE LET order      == getBlockOrder(s, rootClientId)
                          startIndex == IndexOf(order, start)
                          endIndex   == IndexOf(order, end)
                      IN  IF startIndex > endIndex
                          THEN Slice(order, endIndex, startIndex + 1)
                          ELSE Slice(order, startIndex, endIndex + 1)

\* getLastMultiSelectedBlockClientId: last( getMultiSelectedBlockClientIds )
getLastMultiSelectedBlockClientId(s) ==
    LET ids == getMultiSelectedBlockClientIds(s)
    IN  IF Len(ids) = 0 THEN NULL ELSE ids[Len(ids)]

\* getBlockInsertionPoint( state ): { rootClientId, layout, index }
getBlockInsertionPoint(s) ==
    LET lastMulti == getLastMultiSelectedBlockClientId(s)
        clientId  == IF lastMulti # NULL THEN lastMulti
                     ELSE getSelectedBlockClientId(s)
    IN  IF clientId # NULL
        THEN LET root == getBlockRootClientId(s, clientId)
                 rootClientId == IF root \in { ROOT, NULL } THEN UNDEFINED ELSE root
             IN  [ rootClientId |-> rootClientId,
                   layout       |-> getBlockLayout(s, clientId),
                   index        |-> getBlockIndex(s, clientId, rootClientId) + 1 ]
        ELSE [ rootClientId |-> UNDEFINED,
               layout       |-> UNDEFINED,
               index        |-> Len(getBlockOrder(s, UNDEFINED)) ]

\* ======================================================================
\* Selection: getMultiSelectedBlockClientIds, getBlockInsertionPoint
\* ======================================================================

\* describe( 'getMultiSelectedBlockClientIds' ) with the top-level selection
\* expected in the order from start to end.
MultiSelectedFixtures_FromStartToEnd ==
    { [ blockOrder     |-> (ROOT :> << "123", "23" >>),
        blockSelection |-> [ start |-> NULL, end |-> NULL ],
        expected       |-> << >> ],
      [ blockOrder     |-> (ROOT :> << "5", "4", "3", "2", "1" >>),
        blockSelection |-> [ start |-> "2", end |-> "4" ],
        expected       |-> << "2", "3", "4" >> ],
      [ blockOrder     |-> (ROOT :> << "5", "4", "3", "2", "1" >>)
                           @@ ("4" :> << "9", "8", "7", "6" >>),
        blockSelection |-> [ start |-> "7", end |-> "9" ],
        expected       |-> << "9", "8", "7" >> ] }

\* The states and expected values of describe( 'getMultiSelectedBlockClientIds' ).
MultiSelectedFixtures ==
    { [ blockOrder     |-> (ROOT :> << "123", "23" >>),
        blockSelection |-> [ start |-> NULL, end |-> NULL ],
        expected       |-> << >> ],
      [ blockOrder     |-> (ROOT :> << "5", "4", "3", "2", "1" >>),
        blockSelection |-> [ start |-> "2", end |-> "4" ],
        expected       |-> << "4", "3", "2" >> ],
      [ blockOrder     |-> (ROOT :> << "5", "4", "3", "2", "1" >>)
                           @@ ("4" :> << "9", "8", "7", "6" >>),
        blockSelection |-> [ start |-> "7", end |-> "9" ],
        expected       |-> << "9", "8", "7" >> ] }

\* The states and expected values of describe( 'getBlockInsertionPoint' ).
Block(layout) == [ name |-> UNDEFINED, layout |-> layout ]

\* describe( 'getBlockInsertionPoint' ) with the insertion point of the
\* multi-selection expected after its first block.
InsertionPointFixtures_FirstOfMultiSelection ==
    { [ blocksByClientId |-> ("clientId1" :> Block(UNDEFINED)),
        blockOrder       |-> (ROOT :> << "clientId1" >>) @@ ("clientId1" :> << >>),
        blockSelection   |-> [ start |-> "clientId1", end |-> "clientId1" ],
        expected         |-> [ rootClientId |-> UNDEFINED, layout |-> UNDEFINED, index |-> 1 ] ],
      [ blocksByClientId |-> ("clientId1" :> Block(UNDEFINED)) @@ ("clientId2" :> Block(UNDEFINED)),
        blockOrder       |-> (ROOT :> << "clientId1" >>) @@ ("clientId1" :> << "clientId2" >>)
                             @@ ("clientId2" :> << >>),
        blockSelection   |-> [ start |-> "clientId2", end |-> "clientId2" ],
        expected         |-> [ rootClientId |-> "clientId1", layout |-> UNDEFINED, index |-> 1 ] ],
      [ blocksByClientId |-> ("clientId1" :> Block("wide")),
        blockOrder       |-> (ROOT :> << "clientId1" >>) @@ ("clientId1" :> << >>),
        blockSelection   |-> [ start |-> "clientId1", end |-> "clientId1" ],
        expected         |-> [ rootClientId |-> UNDEFINED, layout |-> "wide", index |-> 1 ] ],
      [ blocksByClientId |-> ("clientId1" :> Block(UNDEFINED)) @@ ("clientId2" :> Block(UNDEFINED)),
        blockOrder       |-> (ROOT :> << "clientId1", "clientId2" >>) @@ ("clientId1" :> << >>)
                             @@ ("clientId2" :> << >>),
        blockSelection   |-> [ start |-> "clientId1", end |-> "clientId2" ],
        expected         |-> [ rootClientId |-> UNDEFINED, layout |-> UNDEFINED, index |-> 1 ] ],
      [ blocksByClientId |-> ("clientId1" :> Block(UNDEFINED)) @@ ("clientId2" :> Block(UNDEFINED)),
        blockOrder       |-> (ROOT :> << "clientId1", "clientId2" >>) @@ ("clientId1" :> << >>)
                             @@ ("clientId2" :> << >>),
        blockSelection   |-> [ start |-> NULL, end |-> NULL ],
        expected         |-> [ rootClientId |-> UNDEFINED, layout |-> UNDEFINED, index |-> 2 ] ] }

\* describe( 'getBlockInsertionPoint' ): the states and what each test expects.
InsertionPointFixtures ==
    { [ blocksByClientId |-> ("clientId1" :> Block(UNDEFINED)),
        blockOrder       |-> (ROOT :> << "clientId1" >>) @@ ("clientId1" :> << >>),
        blockSelection   |-> [ start |-> "clientId1", end |-> "clientId1" ],
        expected         |-> [ rootClientId |-> UNDEFINED, layout |-> UNDEFINED, index |-> 1 ] ],
      [ blocksByClientId |-> ("clientId1" :> Block(UNDEFINED)) @@ ("clientId2" :> Block(UNDEFINED)),
        blockOrder       |-> (ROOT :> << "clientId1" >>) @@ ("clientId1" :> << "clientId2" >>)
                             @@ ("clientId2" :> << >>),
        blockSelection   |-> [ start |-> "clientId2", end |-> "clientId2" ],
        expected         |-> [ rootClientId |-> "clientId1", layout |-> UNDEFINED, index |-> 1 ] ],
      [ blocksByClientId |-> ("clientId1" :> Block("wide")),
        blockOrder       |-> (ROOT :> << "clientId1" >>) @@ ("clientId1" :> << >>),
        blockSelection   |-> [ start |-> "clientId1", end |-> "clientId1" ],
        expected         |-> [ rootClientId |-> UNDEFINED, layout |-> "wide", index |-> 1 ] ],
      [ blocksByClientId |-> ("clientId1" :> Block(UNDEFINED)) @@ ("clientId2" :> Block(UNDEFINED)),
        blockOrder       |-> (ROOT :> << "clientId1", "clientId2" >>) @@ ("clientId1" :> << >>)
                             @@ ("clientId2" :> << >>),
        blockSelection   |-> [ start |-> "clientId1", end |-> "clientId2" ],
        expected         |-> [ rootClientId |-> UNDEFINED, layout |-> UNDEFINED, index |-> 2 ] ],
      [ blocksByClientId |-> ("clientId1" :> Block(UNDEFINED)) @@ ("clientId2" :> Block(UNDEFINED)),
        blockOrder       |-> (ROOT :> << "clientId1", "clientId2" >>) @@ ("clientId1" :> << >>)
                             @@ ("clientId2" :> << >>),
        blockSelection   |-> [ start |-> NULL, end |-> NULL ],
        expected         |-> [ rootClientId |-> UNDEFINED, layout |-> UNDEFINED, index |-> 2 ] ] }

\* Block trees of at most MaxBlocks blocks: a top-level list and, under at
\* most one top-level block, a list of inner blocks.
BlockTrees ==
    { [ top |-> t, parent |-> p, inner |-> c ] :
        << t, p, c >> \in
          { x \in InjSeqs(ClientIds) \X (ClientIds \cup { NULL }) \X InjSeqs(ClientIds) :
              /\ Range(x[1]) \cap Range(x[3]) = {}
              /\ IF x[2] = NULL THEN x[3] = << >>
                               ELSE x[2] \in Range(x[1]) /\ x[3] # << >> } }

TreeIds(tr) == Range(tr.top) \cup Range(tr.inner)

TreeOrder(tr) ==
    (ROOT :> tr.top)
    @@ [ id \in TreeIds(tr) |-> IF id = tr.parent THEN tr.inner ELSE << >> ]

\* A selection the editor can hold: none, one block, or two different
\* blocks of the same list (a multi-selection made in either direction).
Selections(order) ==
    { NoSelection }
    \cup { [ start |-> a, end |-> b ] :
             << a, b >> \in { y \in (DOMAIN order \ { ROOT }) \X (DOMAIN order \ { ROOT }) :
                               \E r \in DOMAIN order :
                                   { y[1], y[2] } \subseteq Range(order[r]) } }

InitOther ==
    /\ settings = NoSettings
    /\ blockListSettings = EmptyMap
    /\ insertUsage = EmptyMap
    /\ reusableBlocks = EmptyMap
    /\ post = NoPost
    /\ refs = NoRefs
    /\ cache = NoCache

NotCalled ==
    /\ called = "none"
    /\ arg = UNDEFINED
    /\ calledOn = UNDEFINED
    /\ result = UNDEFINED

InitSelection ==
    /\ \/ \E f \in MultiSelectedFixtures :
             /\ blockOrder = f.blockOrder
             /\ blockSelection = f.blockSelection
             /\ blocksByClientId = EmptyMap
       \/ \E f \in InsertionPointFixtures :
             /\ blockOrder = f.blockOrder
             /\ blockSelection = f.blockSelection
             /\ blocksByClientId = f.blocksByClientId
       \/ \E tr \in BlockTrees, wide \in ClientIds \cup { NULL } :
             /\ blockOrder = TreeOrder(tr)
             /\ blockSelection \in Selections(TreeOrder(tr))
             /\ blocksByClientId =
                    [ id \in TreeIds(tr) |->
                        Block(IF id = wide THEN "wide" ELSE UNDEFINED) ]
    /\ InitOther
    /\ NotCalled

UnchangedStore ==
    UNCHANGED << blocksByClientId, blockOrder, blockSelection, settings,
                 blockListSettings, insertUsage, reusableBlocks, post, refs >>

CallGetMultiSelectedBlockClientIds ==
    /\ called' = "getMultiSelectedBlockClientIds"
    /\ arg' = UNDEFINED
    /\ calledOn' = Snapshot
    /\ result' = getMultiSelectedBlockClientIds(state)
    /\ UNCHANGED cache
    /\ UnchangedStore

CallGetBlockInsertionPoint ==
    /\ called' = "getBlockInsertionPoint"
    /\ arg' = UNDEFINED
    /\ calledOn' = Snapshot
    /\ result' = getBlockInsertionPoint(state)
    /\ UNCHANGED cache
    /\ UnchangedStore

NextSelection ==
    \/ CallGetMultiSelectedBlockClientIds
    \/ CallGetBlockInsertionPoint

SpecSelection == InitSelection /\ [][NextSelection]_vars

\* ---------------------------------------------------------------- C1
\* 1-based position of id in the list q (0 when absent).
Pos(q, id) == IndexOf(q, id) + 1

\* The list that holds both ends of the selection, if there is one.
HasCommonList(s) ==
    \E r \in DOMAIN s.blockOrder :
        { s.blockSelection.start, s.blockSelection.end } \subseteq Range(s.blockOrder[r])

CommonList(s) ==
    s.blockOrder[CHOOSE r \in DOMAIN s.blockOrder :
        { s.blockSelection.start, s.blockSelection.end } \subseteq Range(s.blockOrder[r])]

IsMultiSelection(s) ==
    /\ s.blockSelection.start # NULL
    /\ s.blockSelection.end # NULL
    /\ s.blockSelection.start # s.blockSelection.end

\* C1: getMultiSelectedBlockClientIds returns, for a multi-selection whose
\* two ends lie in the same order list (top level or nested), the contiguous
\* part of that list from the earlier of the two ends to the later one,
\* both included, in list order; it returns the empty list when there is no
\* multi-selection; and it returns what the tests of the selector expect.
C1_MultiSelectedIsDocumentOrderSlice ==
    called = "getMultiSelectedBlockClientIds" =>
        /\ (IsMultiSelection(state) /\ HasCommonList(state)) =>
               LET q  == CommonList(state)
                   a  == Pos(q, blockSelection.start)
                   b  == Pos(q, blockSelection.end)
                   lo == IF a < b THEN a ELSE b
                   hi == IF a < b THEN b ELSE a
               IN  /\ Len(result) = hi - lo + 1
                   /\ \A i \in 1..Len(result) : result[i] = q[lo + i - 1]
        /\ ~IsMultiSelection(state) => result = << >>
        /\ \A f \in MultiSelectedFixtures :
               (blockOrder = f.blockOrder /\ blockSelection = f.blockSelection)
                   => result = f.expected

\* A nested multi-selection made backwards (end before start in the list)
\* that spans at least three blocks has been queried.
C1_Witness ==
    /\ called = "getMultiSelectedBlockClientIds"
    /\ IsMultiSelection(state)
    /\ HasCommonList(state)
    /\ CommonList(state) # blockOrder[ROOT]
    /\ Pos(CommonList(state), blockSelection.end)
         < Pos(CommonList(state), blockSelection.start)
    /\ Len(result) >= 3
    /\ Len(result) < Len(CommonList(state))

\* ---------------------------------------------------------------- C2
\* The client id of the parent of a block the tree holds, undefined for a
\* top-level block.
ParentOf(s, id) ==
    IF id \in Range(s.blockOrder[ROOT])
    THEN UNDEFINED
    ELSE CHOOSE r \in DOMAIN s.blockOrder \ { ROOT } : id \in Range(s.blockOrder[r])

\* The layout attribute the state holds for a block, undefined when the
\* state holds no block object or no such attribute for it.
LayoutOf(s, id) ==
    IF id \in DOMAIN s.blocksByClientId THEN s.blocksByClientId[id].layout ELSE UNDEFINED

ListOf(s, id) ==
    s.blockOrder[CHOOSE r \in DOMAIN s.blockOrder : id \in Range(s.blockOrder[r])]

List(items) == [ isArray |-> TRUE, items |-> items ]
NoList == [ isArray |-> FALSE, items |-> {} ]

\* The block types the tests register before each test (beforeEach).
BlockTypeC_NoParent ==
    [ name |-> "core/test-block-c", category |-> "common",
      inserter |-> TRUE, multiple |-> TRUE, parent |-> NoList ]

BlockTypeC ==
    [ name |-> "core/test-block-c", category |-> "common",
      inserter |-> TRUE, multiple |-> TRUE,
      parent |-> List({ "core/test-block-b" }) ]

BlockTypeB_Formatting ==
    [ name |-> "core/test-block-b", category |-> "formatting",
      inserter |-> TRUE, multiple |-> FALSE, parent |-> NoList ]

BlockTypeB ==
    [ name |-> "core/test-block-b", category |-> "common",
      inserter |-> TRUE, multiple |-> FALSE, parent |-> NoList ]

\* The registry with core/test-block-a left out.
RegisteredBlockTypes_WithoutA ==
    << [ name |-> "core/block", category |-> "reusable",
         inserter |-> FALSE, multiple |-> TRUE, parent |-> NoList ],
       BlockTypeB,
       BlockTypeC >>

\* getBlockTypes(), in registration order.
RegisteredBlockTypes ==
    << [ name |-> "core/block", category |-> "reusable",
         inserter |-> FALSE, multiple |-> TRUE, parent |-> NoList ],
       [ name |-> "core/test-block-a", category |-> "formatting",
         inserter |-> TRUE, multiple |-> TRUE, parent |-> NoList ],
       BlockTypeB,
       BlockTypeC >>

BlockTypeNames == { RegisteredBlockTypes[i].name : i \in 1..Len(RegisteredBlockTypes) }

\* getBlockType( name ); only applied to registered names.
getBlockType(name) ==
    RegisteredBlockTypes[CHOOSE i \in 1..Len(RegisteredBlockTypes) :
                             RegisteredBlockTypes[i].name = name]

\* getBlockListSettings( state, clientId ): undefined when there are none.
hasBlockListSettings(s, clientId) == clientId \in DOMAIN s.blockListSettings

\* getTemplateLock( state, clientId ): the editor's lock without a clientId,
\* else the lock of that block's list settings, null when it has none.
getTemplateLock(s, clientId) ==
    IF clientId \in { UNDEFINED, NULL }
    THEN s.settings.templateLock
    ELSE IF hasBlockListSettings(s, clientId)
              /\ s.blockListSettings[clientId].templateLock # UNDEFINED
         THEN s.blockListSettings[clientId].templateLock
         ELSE NULL

\* canInsertBlockType( state, blockName, parentClientId )
canInsertBlockType(s, blockName, parentClientId) ==
    IF blockName \notin BlockTypeNames
    THEN FALSE
    ELSE IF s.settings.allowedBlockTypes.isArray
            /\ blockName \notin s.settings.allowedBlockTypes.items
    THEN FALSE
    ELSE IF getTemplateLock(s, parentClientId) \notin { UNDEFINED, NULL }
    THEN FALSE
    ELSE LET blockAllowedParentBlocks == getBlockType(blockName).parent
             parentName == getBlockName(s, parentClientId)
             parentAllowedBlocks ==
                 IF hasBlockListSettings(s, parentClientId)
                 THEN s.blockListSettings[parentClientId].allowedBlocks
                 ELSE NoList
         IN  IF blockAllowedParentBlocks.isArray
             THEN parentName \in blockAllowedParentBlocks.items
             ELSE IF parentAllowedBlocks.isArray
                  THEN blockName \in parentAllowedBlocks.items
                  ELSE TRUE

\* The states, arguments and expected values of describe( 'canInsertBlockType' ).
NamedBlock(name) == [ name |-> name, layout |-> UNDEFINED ]
ListSettings(allowedBlocks) == [ allowedBlocks |-> allowedBlocks, templateLock |-> UNDEFINED ]
Settings(allowed, lock) == [ allowedBlockTypes |-> allowed, templateLock |-> lock ]

CanInsertFixtures ==
    { [ blocks |-> EmptyMap, listSettings |-> EmptyMap,
        settings |-> Settings(NoList, UNDEFINED),
        blockName |-> "core/invalid", parent |-> UNDEFINED, expected |-> FALSE ],
      [ blocks |-> EmptyMap, listSettings |-> EmptyMap,
        settings |-> Settings(List({}), UNDEFINED),
        blockName |-> "core/test-block-a", parent |-> UNDEFINED, expected |-> FALSE ],
      [ blocks |-> EmptyMap, listSettings |-> EmptyMap,
        settings |-> Settings(List({ "core/test-block-a" }), UNDEFINED),
        blockName |-> "core/test-block-a", parent |-> UNDEFINED, expected |-> TRUE ],
      [ blocks |-> EmptyMap, listSettings |-> EmptyMap,
        settings |-> Settings(NoList, "all"),
        blockName |-> "core/test-block-a", parent |-> UNDEFINED, expected |-> FALSE ],
      [ blocks |-> EmptyMap, listSettings |-> EmptyMap,
        settings |-> Settings(NoList, UNDEFINED),
        blockName |-> "core/test-block-c", parent |-> UNDEFINED, expected |-> FALSE ],
      [ blocks |-> ("block1" :> NamedBlock("core/test-block-a")), listSettings |-> EmptyMap,
        settings |-> Settings(NoList, UNDEFINED),
        blockName |-> "core/test-block-c", parent |-> "block1", expected |-> FALSE ],
      [ blocks |-> ("block1" :> NamedBlock("core/test-block-b")), listSettings |-> EmptyMap,
        settings |-> Settings(NoList, UNDEFINED),
        blockName |-> "core/test-block-c", parent |-> "block1", expected |-> TRUE ],
      [ blocks |-> ("block1" :> NamedBlock("core/test-block-a")),
        listSettings |-> ("block1" :> ListSettings(List({ "core/test-block-c" }))),
        settings |-> Settings(NoList, UNDEFINED),
        blockName |-> "core/test-block-b", parent |-> "block1", expected |-> FALSE ],
      [ blocks |-> ("block1" :> NamedBlock("core/test-block-a")),
        listSettings |-> ("block1" :> ListSettings(List({ "core/test-block-b" }))),
        settings |-> Settings(NoList, UNDEFINED),
        blockName |-> "core/test-block-b", parent |-> "block1", expected |-> TRUE ],
      [ blocks |-> ("block1" :> NamedBlock("core/test-block-b")),
        listSettings |-> ("block1" :> ListSettings(List({}))),
        settings |-> Settings(NoList, UNDEFINED),
        blockName |-> "core/test-block-c", parent |-> "block1", expected |-> TRUE ] }

\* The block names the states and the calls draw from.
TestBlockNames == { "core/test-block-a", "core/test-block-b", "core/test-block-c" }
OptionalLists(S) == { NoList } \cup { List(x) : x \in SUBSET S }

InitCanInsert ==
    /\ \/ \E f \in CanInsertFixtures :
             /\ blocksByClientId = f.blocks
             /\ blockListSettings = f.listSettings
             /\ settings = f.settings
       \/ \E name \in TestBlockNames :
             /\ blocksByClientId = ("block1" :> NamedBlock(name))
             /\ \/ blockListSettings = EmptyMap
                \/ \E l \in OptionalLists(TestBlockNames) :
                       blockListSettings = ("block1" :> ListSettings(l))
             /\ \E l \in OptionalLists(TestBlockNames), lock \in { UNDEFINED, "all" } :
                    settings = Settings(l, lock)
    /\ blockOrder = (ROOT :> << >>)
    /\ blockSelection = NoSelection
    /\ insertUsage = EmptyMap
    /\ reusableBlocks = EmptyMap
    /\ post = NoPost
    /\ refs = NoRefs
    /\ cache = NoCache
    /\ NotCalled

CallCanInsertBlockType(blockName, parentClientId) ==
    /\ called' = "canInsertBlockType"
    /\ arg' = [ blockName |-> blockName, parentClientId |-> parentClientId ]
    /\ calledOn' = Snapshot
    /\ result' = canInsertBlockType(state, blockName, parentClientId)
    /\ UNCHANGED cache
    /\ UnchangedStore

NextCanInsert ==
    \E blockName \in TestBlockNames \cup { "core/invalid" },
       parentClientId \in { UNDEFINED } \cup DOMAIN blocksByClientId :
        CallCanInsertBlockType(blockName, parentClientId)

SpecCanInsert == InitCanInsert /\ [][NextCanInsert]_vars

\* ---------------------------------------------------------------- C3
\* C3: canInsertBlockType for an insertion at the editor level (no parent
\* block) is false for a name that is not registered, false for a registered
\* type missing from settings.allowedBlockTypes when that is a list, and
\* false for every type when settings.templateLock is set; it is true for a
\* registered type without a `parent` list that the allowedBlockTypes list
\* names when no template lock is set; and it returns what the tests expect.
C3_EditorLevelInsertion ==
    (called = "canInsertBlockType" /\ arg.parentClientId = UNDEFINED) =>
        /\ arg.blockName \notin BlockTypeNames => result = FALSE
        /\ (settings.allowedBlockTypes.isArray
             /\ arg.blockName \notin settings.allowedBlockTypes.items) => result = FALSE
        /\ settings.templateLock # UNDEFINED => result = FALSE
        /\ ( /\ arg.blockName \in BlockTypeNames
             /\ ~getBlockType(arg.blockName).parent.isArray
             /\ settings.allowedBlockTypes.isArray
             /\ arg.blockName \in settings.allowedBlockTypes.items
             /\ settings.templateLock = UNDEFINED ) => result = TRUE
        /\ \A f \in CanInsertFixtures :
               ( /\ blocksByClientId = f.blocks
                 /\ blockListSettings = f.listSettings
                 /\ settings = f.settings
                 /\ arg.blockName = f.blockName
                 /\ arg.parentClientId = f.parent ) => result = f.expected

\* A registered, unrestricted type that the editor's list names was allowed
\* at the editor level while the list leaves other types out.
C3_Witness ==
    /\ called = "canInsertBlockType"
    /\ arg.parentClientId = UNDEFINED
    /\ settings.allowedBlockTypes.isArray
    /\ arg.blockName \in settings.allowedBlockTypes.items
    /\ settings.allowedBlockTypes.items # TestBlockNames
    /\ settings.templateLock = UNDEFINED
    /\ result = TRUE

\* ---------------------------------------------------------------- C4
\* The editor-level checks of the call on display pass: the type is
\* registered, the editor's list (if any) names it, no template lock is set.
EditorAllows ==
    /\ arg.blockName \in BlockTypeNames
    /\ settings.allowedBlockTypes.isArray => arg.blockName \in settings.allowedBlockTypes.items
    /\ settings.templateLock = UNDEFINED

ParentAllowedBlocks ==
    IF arg.parentClientId \in DOMAIN blockListSettings
    THEN blockListSettings[arg.parentClientId].allowedBlocks
    ELSE NoList

INSERTER_UTILITY_HIGH == 3
INSERTER_UTILITY_MEDIUM == 2
INSERTER_UTILITY_LOW == 1
INSERTER_UTILITY_NONE == 0

\* calculateUtility( category, count, isContextual )
calculateUtility(category, count, isContextual) ==
    IF isContextual THEN INSERTER_UTILITY_HIGH
    ELSE IF count > 0 THEN INSERTER_UTILITY_MEDIUM
    ELSE IF category = "common" THEN INSERTER_UTILITY_LOW
    ELSE INSERTER_UTILITY_NONE

\* calculateFrecency( time, count ), in quarters: every usage record of the
\* states used here is, like those of the tests ( time: 1000 ), more than a
\* week old, for which the frecency is count / 4 ( 2.5 for a count of 10 ).
calculateFrecency(time, count) == count

\* getInsertUsage( state, id ): the usage record, count 0 when there is none.
getInsertUsageCount(s, id) ==
    IF id \in DOMAIN s.insertUsage THEN s.insertUsage[id].count ELSE 0

getInsertUsageTime(s, id) ==
    IF id \in DOMAIN s.insertUsage THEN s.insertUsage[id].time ELSE UNDEFINED

\* filter of lodash: the elements of q that are in keep, in their order.
Filter(q, keep) ==
    LET kept == { i \in 1..Len(q) : q[i] \in keep }
    IN  [ k \in 1..Cardinality(kept) |->
            q[CHOOSE i \in kept : Cardinality({ j \in kept : j < i }) = k - 1] ]

\* orderBy( items, [ 'utility', 'frecency' ], [ 'desc', 'desc' ] ): a stable
\* sort, so items equal in both keep their order.
Precedes(x, y) ==
    \/ x.utility > y.utility
    \/ (x.utility = y.utility /\ x.frecency > y.frecency)

orderBy(q) ==
    LET place(i) ==
            1 + Cardinality({ j \in 1..Len(q) :
                                \/ Precedes(q[j], q[i])
                                \/ (~Precedes(q[i], q[j]) /\ j < i) })
    IN  [ k \in 1..Len(q) |-> q[CHOOSE i \in 1..Len(q) : place(i) = k] ]

\* The ids of the reusable blocks of state.reusableBlocks.data, in key order.
ReusableIds == << "1", "2" >>
getReusableBlockIds(s) == Filter(ReusableIds, DOMAIN s.reusableBlocks)

\* The selector function of getInserterItems( state, rootClientId ).
getInserterItemsUnmemoized(s, rootClientId) ==
    LET shouldIncludeBlockType(blockType) ==
            /\ blockType.inserter
            /\ canInsertBlockType(s, blockType.name, rootClientId)
        buildBlockTypeInserterItem(blockType) ==
            LET id == blockType.name
                isContextual ==
                    /\ blockType.parent.isArray
                    /\ getBlockName(s, rootClientId) \in blockType.parent.items
            IN  [ id         |-> id,
                  name       |-> blockType.name,
                  category   |-> blockType.category,
                  isDisabled |-> /\ ~blockType.multiple
                                 /\ \E c \in Range(getBlockOrder(s, UNDEFINED)) :
                                        getBlockName(s, c) = blockType.name,
                  utility    |-> calculateUtility(blockType.category,
                                                  getInsertUsageCount(s, id), isContextual),
                  frecency   |-> calculateFrecency(getInsertUsageTime(s, id),
                                                   getInsertUsageCount(s, id)) ]
        shouldIncludeReusableBlock(ref) ==
            /\ canInsertBlockType(s, "core/block", rootClientId)
            /\ getBlockName(s, s.reusableBlocks[ref].clientId) \in BlockTypeNames
            /\ canInsertBlockType(s, getBlockName(s, s.reusableBlocks[ref].clientId),
                                  rootClientId)
        buildReusableBlockInserterItem(ref) ==
            LET id == "core/block/" \o ref
            IN  [ id         |-> id,
                  name       |-> "core/block",
                  category   |-> "reusable",
                  isDisabled |-> FALSE,
                  utility    |-> calculateUtility("reusable",
                                                  getInsertUsageCount(s, id), FALSE),
                  frecency   |-> calculateFrecency(getInsertUsageTime(s, id),
                                                   getInsertUsageCount(s, id)) ]
        types    == Filter(RegisteredBlockTypes,
                           { t \in Range(RegisteredBlockTypes) : shouldIncludeBlockType(t) })
        reusable == Filter(getReusableBlockIds(s),
                           { ref \in DOMAIN s.reusableBlocks : shouldIncludeReusableBlock(ref) })
    IN  orderBy([ i \in 1..Len(types) |-> buildBlockTypeInserterItem(types[i]) ]
                \o [ i \in 1..Len(reusable) |-> buildReusableBlockInserterItem(reusable[i]) ])

ItemIds(items) == [ i \in 1..Len(items) |-> items[i].id ]

\* The dependants of getInserterItems for a root: the identity of
\* state.blockListSettings[ rootClientId ] (0 for undefined); the other
\* dependants (block order, blocks, insert usage, editor settings, reusable
\* blocks, block types) are never replaced here.
getInserterItemsDependants(r, rootClientId) ==
    << IF rootClientId \in DOMAIN r.blockListSettings
       THEN r.blockListSettings[rootClientId]
       ELSE 0 >>

\* ------------------------------------------------------------------ bounds
MaxRefs == 3
MaxCount == 2
MaxUsed == 2

\* getInserterItems( state, rootClientId ) as memoized by createSelector: a
\* call whose dependants differ from the last call's clears the cache; a
\* call the cache holds a result for returns that very array, any other
\* computes a new array and keeps it.
CallGetInserterItems(rootClientId) ==
    LET deps == getInserterItemsDependants(refs, rootClientId)
        kept == IF cache.lastDependants = deps THEN cache.entries ELSE EmptyMap
        hit  == rootClientId \in DOMAIN kept
        res  == IF hit
                THEN kept[rootClientId]
                ELSE [ ref   |-> refs.next,
                       items |-> getInserterItemsUnmemoized(state, rootClientId) ]
    IN  /\ hit \/ refs.next <= MaxRefs
        /\ called' = "getInserterItems"
        /\ arg' = rootClientId
        /\ calledOn' = Snapshot
        /\ result' = res
        /\ cache' = [ lastDependants |-> deps,
                      entries |-> (rootClientId :> res) @@ kept ]
        /\ refs' = IF hit THEN refs ELSE [ refs EXCEPT !.next = @ + 1 ]
        /\ UNCHANGED << blocksByClientId, blockOrder, blockSelection, settings,
                        blockListSettings, insertUsage, reusableBlocks, post >>

\* The next state of the test of the cache: state.blockListSettings gets a
\* new settings object for one block, everything else is kept as it is.
UpdateBlockListSettings(clientId, allowedBlocks) ==
    /\ refs.next <= MaxRefs
    /\ blockListSettings' =
           (clientId :> ListSettings(allowedBlocks)) @@ blockListSettings
    /\ refs' = [ refs EXCEPT
                   !.blockListSettings = (clientId :> refs.next) @@ refs.blockListSettings,
                   !.next = refs.next + 1 ]
    /\ UNCHANGED << blocksByClientId, blockOrder, blockSelection, settings,
                    insertUsage, reusableBlocks, post, cache,
                    called, arg, calledOn, result >>

\* The states and expectations of describe( 'getInserterItems' ).  frecency
\* is in quarters ( 2.5 is 10 ).
Usage(count) == [ count |-> count, time |-> 1000 ]
Reusable(clientId) == [ clientId |-> clientId ]
TwoBlocksA ==
    ("block1" :> NamedBlock("core/test-block-a")) @@ ("block2" :> NamedBlock("core/test-block-a"))
TwoReusable == ("1" :> Reusable("block1")) @@ ("2" :> Reusable("block1"))
NoIds == [ known |-> FALSE, ids |-> << >> ]
Ids(ids) == [ known |-> TRUE, ids |-> ids ]

OrderFixture_Swapped ==
    [ blocks |-> TwoBlocksA, order |-> EmptyMap, reusable |-> TwoReusable,
      usage |-> ("core/block/1" :> Usage(10)) @@ ("core/block/2" :> Usage(20)),
      listSettings |-> EmptyMap, root |-> UNDEFINED,
      ids |-> Ids(<< "core/block/1", "core/block/2", "core/test-block-b", "core/test-block-a" >>),
      items |-> {} ]

OrderFixture ==
    [ blocks |-> TwoBlocksA, order |-> EmptyMap, reusable |-> TwoReusable,
      usage |-> ("core/block/1" :> Usage(10)) @@ ("core/block/2" :> Usage(20)),
      listSettings |-> EmptyMap, root |-> UNDEFINED,
      ids |-> Ids(<< "core/block/2", "core/block/1", "core/test-block-b", "core/test-block-a" >>),
      items |-> {} ]

CacheFixtures_Stale ==
    { [ blocks |-> TwoBlocksA, order |-> EmptyMap, reusable |-> TwoReusable,
        usage |-> EmptyMap, listSettings |-> EmptyMap, root |-> r,
        ids |-> Ids(<< "core/test-block-b", "core/test-block-a", "core/block/1", "core/block/2" >>),
        items |-> {} ] : r \in { "block1", "block2" } }
    \cup
    { [ blocks |-> TwoBlocksA, order |-> EmptyMap, reusable |-> TwoReusable,
        usage |-> EmptyMap,
        listSettings |-> ("block2" :> ListSettings(List({ "core/test-block-b" }))),
        root |-> r,
        ids |-> Ids(<< "core/test-block-b", "core/test-block-a", "core/block/1", "core/block/2" >>),
        items |-> {} ] : r \in { "block1", "block2" } }

CacheFixtures ==
    { [ blocks |-> TwoBlocksA, order |-> EmptyMap, reusable |-> TwoReusable,
        usage |-> EmptyMap, listSettings |-> EmptyMap, root |-> r,
        ids |-> Ids(<< "core/test-block-b", "core/test-block-a", "core/block/1", "core/block/2" >>),
        items |-> {} ] : r \in { "block1", "block2" } }
    \cup
    { [ blocks |-> TwoBlocksA, order |-> EmptyMap, reusable |-> TwoReusable,
        usage |-> EmptyMap,
        listSettings |-> ("block2" :> ListSettings(List({ "core/test-block-b" }))),
        root |-> "block1",
        ids |-> Ids(<< "core/test-block-b", "core/test-block-a", "core/block/1", "core/block/2" >>),
        items |-> {} ],
      [ blocks |-> TwoBlocksA, order |-> EmptyMap, reusable |-> TwoReusable,
        usage |-> EmptyMap,
        listSettings |-> ("block2" :> ListSettings(List({ "core/test-block-b" }))),
        root |-> "block2",
        ids |-> Ids(<< "core/test-block-b" >>),
        items |-> {} ] }

Item(id, name, category, isDisabled, utility, frecency) ==
    [ id |-> id, name |-> name, category |-> category, isDisabled |-> isDisabled,
      utility |-> utility, frecency |-> frecency ]

UtilityFixtures ==
    { [ blocks |-> ("block1" :> NamedBlock("core/test-block-a")),
        order |-> EmptyMap, reusable |-> ("1" :> Reusable("block1")),
        usage |-> EmptyMap, listSettings |-> EmptyMap, root |-> UNDEFINED, ids |-> NoIds,
        items |-> { Item("core/test-block-a", "core/test-block-a", "formatting", FALSE, 0, 0),
                    Item("core/block/1", "core/block", "reusable", FALSE, 0, 0) } ],
      [ blocks |-> ("block1" :> NamedBlock("core/test-block-b")),
        order |-> (ROOT :> << "block1" >>), reusable |-> EmptyMap,
        usage |-> EmptyMap, listSettings |-> EmptyMap, root |-> UNDEFINED, ids |-> NoIds,
        items |-> { Item("core/test-block-b", "core/test-block-b", "common", TRUE,
                         INSERTER_UTILITY_LOW, 0) } ],
      [ blocks |-> EmptyMap, order |-> EmptyMap, reusable |-> EmptyMap,
        usage |-> EmptyMap, listSettings |-> EmptyMap, root |-> UNDEFINED, ids |-> NoIds,
        items |-> { Item("core/test-block-b", "core/test-block-b", "common", FALSE,
                         INSERTER_UTILITY_LOW, 0) } ],
      [ blocks |-> EmptyMap, order |-> EmptyMap, reusable |-> EmptyMap,
        usage |-> ("core/test-block-b" :> Usage(10)), listSettings |-> EmptyMap,
        root |-> UNDEFINED, ids |-> NoIds,
        items |-> { Item("core/test-block-b", "core/test-block-b", "common", FALSE,
                         INSERTER_UTILITY_MEDIUM, 10) } ],
      [ blocks |-> ("block1" :> NamedBlock("core/test-block-b")),
        order |-> (ROOT :> << "block1" >>), reusable |-> EmptyMap,
        usage |-> EmptyMap, listSettings |-> EmptyMap, root |-> "block1", ids |-> NoIds,
        items |-> { Item("core/test-block-c", "core/test-block-c", "common", FALSE,
                         INSERTER_UTILITY_HIGH, 0) } ] }

InserterFixtures == { OrderFixture } \cup CacheFixtures \cup UtilityFixtures

\* The call on display is the call of fixture f.
IsFixtureCall(f) ==
    /\ calledOn.state.blocksByClientId = f.blocks
    /\ calledOn.state.blockOrder = f.order
    /\ calledOn.state.reusableBlocks = f.reusable
    /\ calledOn.state.insertUsage = f.usage
    /\ calledOn.state.blockListSettings = f.listSettings
    /\ calledOn.state.settings = NoSettings
    /\ arg = f.root

MeetsFixture(f) ==
    /\ f.ids.known => ItemIds(result.items) = f.ids.ids
    /\ f.items \subseteq Range(result.items)

\* The ids usage is recorded under: block types and reusable blocks.
UsageIds ==
    { "core/test-block-a", "core/test-block-b", "core/test-block-c",
      "core/block/1", "core/block/2" }

\* preferences.insertUsage with at most MaxUsed records, each of a count of
\* 1..MaxCount (a record is written when a block is inserted).
InsertUsages ==
    UNION { [ used -> { Usage(c) : c \in 1..MaxCount } ] :
              used \in { u \in SUBSET UsageIds : Cardinality(u) <= MaxUsed } }

InitInserterOther ==
    /\ blockListSettings = EmptyMap
    /\ blockSelection = NoSelection
    /\ post = NoPost
    /\ refs = NoRefs
    /\ cache = NoCache
    /\ NotCalled

InitInserter ==
    /\ \/ \E f \in InserterFixtures :
             /\ f.listSettings = EmptyMap
             /\ blocksByClientId = f.blocks
             /\ blockOrder = f.order
             /\ reusableBlocks = f.reusable
             /\ insertUsage = f.usage
             /\ settings = NoSettings
       \/ /\ \E name \in { "core/test-block-a", "core/test-block-b" } :
                blocksByClientId = ("block1" :> NamedBlock(name))
                                   @@ ("block2" :> NamedBlock("core/test-block-a"))
          /\ blockOrder = (ROOT :> << "block1", "block2" >>)
          /\ reusableBlocks \in { EmptyMap, TwoReusable }
          /\ insertUsage \in InsertUsages
          /\ \E l \in { NoList,
                        List({ "core/test-block-a", "core/test-block-c", "core/block" }) } :
                settings = Settings(l, UNDEFINED)
    /\ InitInserterOther

Roots == { UNDEFINED } \cup DOMAIN blocksByClientId

NextInserter == \E rootClientId \in Roots : CallGetInserterItems(rootClientId)

SpecInserter == InitInserter /\ [][NextInserter]_vars

\* The test of the cache and its neighbours: the state of the test with and
\* without reusable blocks and usage, whose blockListSettings are replaced
\* block by block between the calls.
InitInserterCache ==
    /\ blocksByClientId = TwoBlocksA
    /\ blockOrder = EmptyMap
    /\ reusableBlocks \in { EmptyMap, TwoReusable }
    /\ insertUsage \in { EmptyMap, ("core/test-block-a" :> Usage(1)) }
    /\ settings = NoSettings
    /\ InitInserterOther

UpdateLists ==
    { List({ "core/test-block-b" }), List({ "core/test-block-a", "core/block" }) }

NextInserterCache ==
    \/ \E rootClientId \in Roots : CallGetInserterItems(rootClientId)
    \/ \E clientId \in DOMAIN blocksByClientId, allowedBlocks \in UpdateLists :
           UpdateBlockListSettings(clientId, allowedBlocks)

SpecInserterCache == InitInserterCache /\ [][NextInserterCache]_vars

\* ---------------------------------------------------------------- C5
\* Between the two states the last two calls were applied to, nothing but
\* the blockListSettings of blocks other than the root differs.
OnlyOtherListSettingsDiffer ==
    /\ \A k \in DOMAIN calledOn.state \ { "blockListSettings" } :
           calledOn'.state[k] = calledOn.state[k]
    /\ (arg \in DOMAIN calledOn'.state.blockListSettings)
         <=> (arg \in DOMAIN calledOn.state.blockListSettings)
    /\ arg \in DOMAIN calledOn.state.blockListSettings =>
           calledOn'.refs.blockListSettings[arg] = calledOn.refs.blockListSettings[arg]

\* Two calls in a row for the same root, on states that differ only in the
\* blockListSettings of other blocks, return the same array.
C5_SameArray ==
    ( /\ called = "getInserterItems"
      /\ called' = "getInserterItems"
      /\ arg' = arg
      /\ OnlyOtherListSettingsDiffer ) => result'.ref = result.ref

\* The array a call returned is the list computed from the state the call
\* was applied to: it names only blocks the root's allowedBlocks allow, and
\* it is the list the test of the cache expects.
C5_NeverStale ==
    called = "getInserterItems" =>
        /\ result.items = getInserterItemsUnmemoized(calledOn.state, arg)
        /\ (arg \in DOMAIN calledOn.state.blockListSettings
             /\ calledOn.state.blockListSettings[arg].allowedBlocks.isArray) =>
               \A i \in 1..Len(result.items) :
                   result.items[i].name
                     \in calledOn.state.blockListSettings[arg].allowedBlocks.items
        /\ \A f \in CacheFixtures : IsFixtureCall(f) => MeetsFixture(f)

\* C5: getInserterItems, called twice in a row for one rootClientId on two
\* states that differ only in the blockListSettings of other blocks,
\* returns the reference-identical array; and whatever the cache holds, the
\* array returned for a block is the list computed from the state of the
\* call, so a block whose blockListSettings changed gets the list that
\* honours its new allowedBlocks.
C5_CacheKeepsAndNeverServesStale ==
    /\ [][C5_SameArray]_vars
    /\ []C5_NeverStale

\* The array returned for block1 is older than the settings object that
\* block2 has in the state of the call: it was kept across that change;
\* and block2's new settings leave out blocks that array lists.
C5_Witness ==
    /\ called = "getInserterItems"
    /\ arg = "block1"
    /\ "block2" \in DOMAIN calledOn.state.blockListSettings
    /\ "block1" \notin DOMAIN calledOn.state.blockListSettings
    /\ result.ref < calledOn.refs.blockListSettings["block2"]
    /\ \E i \in 1..Len(result.items) :
           result.items[i].name
             \notin calledOn.state.blockListSettings["block2"].allowedBlocks.items

\* ---------------------------------------------------------------- C7
\* C7: the list getInserterItems returns is in descending order of utility
\* and, among items of the same utility, in descending order of frecency;
\* and the test of the order gets the order it expects.
C7_OrderedByUtilityThenFrecency ==
    called = "getInserterItems" =>
        /\ \A i, j \in 1..Len(result.items) :
               i < j =>
                   \/ result.items[i].utility > result.items[j].utility
                   \/ /\ result.items[i].utility = result.items[j].utility
                      /\ result.items[i].frecency >= result.items[j].frecency
        /\ IsFixtureCall(OrderFixture) => MeetsFixture(OrderFixture)

\* A list with two items of the same utility and different frecency, after
\* an item of higher utility, all of them block types: the registration
\* order (a, b, c) is not the order returned.
C7_Witness ==
    /\ called = "getInserterItems"
    /\ \E i, j, k \in 1..Len(result.items) :
           /\ i < j /\ j < k
           /\ result.items[i].utility > result.items[j].utility
           /\ result.items[j].utility = result.items[k].utility
           /\ result.items[j].frecency > result.items[k].frecency
           /\ result.items[j].name = "core/test-block-b"
           /\ result.items[k].name = "core/test-block-a"

\* ---------------------------------------------------------------- C8
\* The name of the block the call's rootClientId identifies, null for none.
RootBlockName ==
    IF arg \in DOMAIN calledOn.state.blocksByClientId
    THEN calledOn.state.blocksByClientId[arg].name
    ELSE NULL

\* The `parent` list of the block type an item stands for names the root.
ItemIsContextual(item) ==
    \E i \in 1..Len(RegisteredBlockTypes) :
        /\ RegisteredBlockTypes[i].name = item.id
        /\ RegisteredBlockTypes[i].parent.isArray
        /\ RootBlockName \in RegisteredBlockTypes[i].parent.items

\* C8: an item of getInserterItems for a block type whose `parent` list
\* names the block of rootClientId has utility INSERTER_UTILITY_HIGH;
\* otherwise an item with an insertUsage record has INSERTER_UTILITY_MEDIUM
\* and a frecency that is not 0; otherwise an item of category 'common' has
\* INSERTER_UTILITY_LOW; otherwise utility and frecency are 0; and the
\* items the tests look up are as the tests expect.
C8_UtilityOfItems ==
    called = "getInserterItems" =>
        /\ \A i \in 1..Len(result.items) :
               LET item == result.items[i]
               IN  IF ItemIsContextual(item)
                   THEN item.utility = INSERTER_UTILITY_HIGH
                   ELSE IF item.id \in DOMAIN calledOn.state.insertUsage
                   THEN item.utility = INSERTER_UTILITY_MEDIUM /\ item.frecency # 0
                   ELSE IF item.category = "common"
                   THEN item.utility = INSERTER_UTILITY_LOW
                   ELSE item.utility = 0 /\ item.frecency = 0
        /\ \A f \in UtilityFixtures : IsFixtureCall(f) => MeetsFixture(f)

\* A list with a contextual item, a used item, an unused common item and
\* an unused item of another category.
C8_Witness ==
    /\ called = "getInserterItems"
    /\ \E i, j, k, l \in 1..Len(result.items) :
           /\ ItemIsContextual(result.items[i])
           /\ result.items[i].utility = INSERTER_UTILITY_HIGH
           /\ result.items[j].utility = INSERTER_UTILITY_MEDIUM
           /\ result.items[j].frecency > 0
           /\ result.items[k].utility = INSERTER_UTILITY_LOW
           /\ result.items[l].utility = 0

\* ======================================================================
\* getBlockDependantsCacheBust
\* ======================================================================

\* createSelector keeps its results by the identities of the dependants and
\* by the arguments, so the identity of a result is given here as the pair
\* of both: two results are the same reference exactly when they were
\* computed for the same argument from reference-identical dependants.
\*
\* getBlock( state, clientId ): dependants are the block object and the
\* block's cache bust.  getBlockDependantsCacheBust( state, clientId ):
\* dependants are the getBlock( ) results of the inner blocks, in order.
RECURSIVE getBlock(_, _), getBlockDependantsCacheBust(_, _)
getBlock(sn, clientId) ==
    [ selector   |-> "getBlock",
      clientId   |-> clientId,
      dependants |-> << [ object |-> sn.refs.blocks[clientId] ],
                        getBlockDependantsCacheBust(sn, clientId) >> ]

getBlockDependantsCacheBust(sn, clientId) ==
    LET order == getBlockOrder(sn.state, clientId)
    IN  [ selector   |-> "getBlockDependantsCacheBust",
          clientId   |-> clientId,
          dependants |-> [ i \in 1..Len(order) |-> getBlock(sn, order[i]) ] ]

CallGetBlockDependantsCacheBust(clientId) ==
    /\ called' = "getBlockDependantsCacheBust"
    /\ arg' = clientId
    /\ calledOn' = Snapshot
    /\ result' = getBlockDependantsCacheBust(Snapshot, clientId)
    /\ UNCHANGED cache
    /\ UnchangedStore

\* The client ids of the tests of the selector, and one more.
BustIds == << "123", "456", "789", "1011" >>

\* A block of the next state is a new object (its attributes were updated);
\* every other object of the state is kept.
ReplaceBlock(clientId) ==
    /\ refs.next <= MaxRefs
    /\ refs' = [ refs EXCEPT !.blocks[clientId] = refs.next, !.next = refs.next + 1 ]
    /\ UNCHANGED << blocksByClientId, blockOrder, blockSelection, settings,
                    blockListSettings, insertUsage, reusableBlocks, post, cache,
                    called, arg, calledOn, result >>

\* The next state has one more block, appended to the inner blocks of
\* parent: a new block object, a new order list for the parent and an empty
\* order list for the new block.
AddInnerBlock(parent, clientId) ==
    /\ refs.next <= MaxRefs
    /\ clientId \notin DOMAIN blocksByClientId
    /\ blocksByClientId' = (clientId :> NamedBlock("core/paragraph")) @@ blocksByClientId
    /\ blockOrder' = (parent :> Append(blockOrder[parent], clientId))
                     @@ (clientId :> << >>) @@ blockOrder
    /\ refs' = [ refs EXCEPT
                   !.blocks = (clientId :> refs.next) @@ refs.blocks,
                   !.order  = (parent :> refs.next + 1) @@ (clientId :> refs.next + 2)
                              @@ refs.order,
                   !.next   = refs.next + 3 ]
    /\ UNCHANGED << blockSelection, settings, blockListSettings, insertUsage,
                    reusableBlocks, post, cache, called, arg, calledOn, result >>

\* The first states of the tests: block 123 at the top level, alone, with
\* the inner block 456, and with 456 and its inner block 789.
BustChain(n) ==
    [ id \in { BustIds[i] : i \in 1..n } |->
        IF id = BustIds[n] THEN << >>
        ELSE << BustIds[(CHOOSE i \in 1..n : BustIds[i] = id) + 1] >> ]

InitCacheBust ==
    /\ \E n \in 1..3 :
          /\ blockOrder = (ROOT :> << "123" >>) @@ BustChain(n)
          /\ blocksByClientId =
                 [ id \in { BustIds[i] : i \in 1..n } |-> NamedBlock("core/paragraph") ]
          /\ refs = [ blockListSettings |-> EmptyMap,
                      blocks |-> [ id \in { BustIds[i] : i \in 1..n } |->
                                     0 - (CHOOSE i \in 1..n : BustIds[i] = id) ],
                      order  |-> [ id \in { ROOT } \cup { BustIds[i] : i \in 1..n } |->
                                     IF id = ROOT THEN 0 - 10
                                     ELSE 0 - 10 - (CHOOSE i \in 1..n : BustIds[i] = id) ],
                      next   |-> 1 ]
    /\ blockSelection = NoSelection
    /\ settings = NoSettings
    /\ blockListSettings = EmptyMap
    /\ insertUsage = EmptyMap
    /\ reusableBlocks = EmptyMap
    /\ post = NoPost
    /\ cache = NoCache
    /\ NotCalled

NextCacheBust ==
    \/ \E clientId \in DOMAIN blocksByClientId : CallGetBlockDependantsCacheBust(clientId)
    \/ \E clientId \in DOMAIN blocksByClientId : ReplaceBlock(clientId)
    \/ \E parent \in DOMAIN blocksByClientId, clientId \in Range(BustIds) :
           AddInnerBlock(parent, clientId)

SpecCacheBust == InitCacheBust /\ [][NextCacheBust]_vars

\* ---------------------------------------------------------------- C6
RECURSIVE Descendants(_, _)
Descendants(order, id) ==
    IF id \notin DOMAIN order THEN {}
    ELSE Range(order[id]) \cup UNION { Descendants(order, c) : c \in Range(order[id]) }

Children(sn, id) == Range(sn.state.blockOrder[id])
GrandChildren(sn, id) == UNION { Children(sn, c) : c \in Children(sn, id) }

\* The block's order list and the block objects and order lists of all its
\* descendants are the same objects in both states.
SameDependantObjects(a, b, id) ==
    /\ a.refs.order[id] = b.refs.order[id]
    /\ Descendants(a.state.blockOrder, id) = Descendants(b.state.blockOrder, id)
    /\ \A d \in Descendants(a.state.blockOrder, id) :
           /\ a.refs.blocks[d] = b.refs.blocks[d]
           /\ a.refs.order[d] = b.refs.order[d]

InnerBlockAdded(a, b, id) ==
    /\ Children(a, id) \subseteq Children(b, id)
    /\ Children(a, id) # Children(b, id)

BlockReplacedAmong(a, b, ids) ==
    \E c \in ids : c \in DOMAIN b.refs.blocks /\ a.refs.blocks[c] # b.refs.blocks[c]

\* What the tests of the selector expect of the second of two calls for
\* block 123: toBe ( same ) or not.toBe the result of the first.
CacheBustExpectations_GrandchildSame ==
    { [ change |-> "none", same |-> TRUE ],
      [ change |-> "added inner block", same |-> FALSE ],
      [ change |-> "updated inner block", same |-> FALSE ],
      [ change |-> "updated grandchild inner block", same |-> TRUE ] }

CacheBustExpectations ==
    { [ change |-> "none", same |-> TRUE ],
      [ change |-> "added inner block", same |-> FALSE ],
      [ change |-> "updated inner block", same |-> FALSE ],
      [ change |-> "updated grandchild inner block", same |-> FALSE ] }

\* The change of a test between the states a and b of two calls.
IsChange(change, a, b) ==
    CASE change = "none" -> a = b
      [] change = "added inner block" ->
            /\ Children(a, "123") = {}
            /\ Children(b, "123") # {}
      [] change = "updated inner block" ->
            /\ a.state = b.state
            /\ \E c \in Children(a, "123") :
                   /\ a.refs.blocks[c] # b.refs.blocks[c]
                   /\ \A k \in DOMAIN a.refs.blocks \ { c } : a.refs.blocks[k] = b.refs.blocks[k]
      [] change = "updated grandchild inner block" ->
            /\ a.state = b.state
            /\ \E c \in GrandChildren(a, "123") :
                   /\ a.refs.blocks[c] # b.refs.blocks[c]
                   /\ \A k \in DOMAIN a.refs.blocks \ { c } : a.refs.blocks[k] = b.refs.blocks[k]

C6_TwoCalls ==
    ( /\ called = "getBlockDependantsCacheBust"
      /\ called' = "getBlockDependantsCacheBust"
      /\ arg' = arg ) =>
        /\ SameDependantObjects(calledOn, calledOn', arg) => result' = result
        /\ InnerBlockAdded(calledOn, calledOn', arg) => result' # result
        /\ BlockReplacedAmong(calledOn, calledOn', Children(calledOn, arg)) => result' # result
        /\ BlockReplacedAmong(calledOn, calledOn', GrandChildren(calledOn, arg))
              => result' # result
        /\ arg = "123" =>
              \A e \in CacheBustExpectations :
                  IsChange(e.change, calledOn, calledOn') => ((result' = result) <=> e.same)

\* C6: of two calls in a row of getBlockDependantsCacheBust for one block,
\* the second returns the same reference as the first when the block's
\* order list and the block objects and order lists of all its descendants
\* are the same objects in both states, and another reference when an
\* inner block was added to the block or the block object of a child or of
\* a grandchild was replaced; the tests of the selector get what they
\* expect.
C6_CacheBustFollowsDependants == [][C6_TwoCalls]_vars

\* The cache bust of block 123 was asked for in a state whose grandchild
\* 789 is a new object, after it was asked for before.
C6_Witness ==
    /\ called = "getBlockDependantsCacheBust"
    /\ arg = "123"
    /\ "789" \in GrandChildren(calledOn, "123")
    /\ calledOn.refs.blocks["789"] > 0
    /\ calledOn.refs.blocks["456"] < 0
    /\ result = getBlockDependantsCacheBust(calledOn, "123")

\* =========================================================== the post
\* ------------------------------------------------------- post selectors
\* A pending optimistic transaction: the id of its action
\* ( action.optimist.id, undefined without one ) and the state it was
\* started from (the part of that state the selectors read), if it has one.
BeforeState(isDirty, currentPost) == [ isDirty |-> isDirty, currentPost |-> currentPost ]
Transaction(isDirty) ==
    [ id |-> UNDEFINED, hasBeforeState |-> TRUE,
      beforeState |-> BeforeState(isDirty, NoAttributes) ]
TransactionWithoutBeforeState ==
    [ id |-> UNDEFINED, hasBeforeState |-> FALSE,
      beforeState |-> BeforeState(FALSE, NoAttributes) ]

\* isEditedPostDirty( state ): the editor's dirty flag, or the dirty flag of
\* the state before some pending optimistic transaction.
isEditedPostDirty(s) ==
    \/ s.post.isDirty
    \/ \E i \in 1..Len(s.post.optimist) :
           /\ s.post.optimist[i].hasBeforeState
           /\ s.post.optimist[i].beforeState.isDirty

\* getEditedPostAttribute( state, attributeName ): the edited value where the
\* edits hold the attribute, the saved post's value otherwise.
getEditedPostAttribute(s, attributeName) ==
    IF s.post.edits[attributeName] # UNDEFINED
    THEN s.post.edits[attributeName]
    ELSE s.post.currentPost[attributeName]

\* getCurrentPost( state ).status
getCurrentPostStatus(s) == s.post.currentPost.status

\* isSavingPost( state ): state.saving.requesting
isSavingPost(s) == s.post.requesting

\* !! value for a string attribute that may be missing
Truthy(value) == value \notin { UNDEFINED, "" }

UnpublishableStatuses == { "publish", "private", "future" }

\* isEditedPostPublishable( state )
isEditedPostPublishable(s) ==
    \/ isEditedPostDirty(s)
    \/ getCurrentPostStatus(s) \notin UnpublishableStatuses

\* isEditedPostSaveable( state )
isEditedPostSaveable(s) ==
    IF isSavingPost(s)
    THEN FALSE
    ELSE \/ Truthy(getEditedPostAttribute(s, "title"))
         \/ Truthy(getEditedPostAttribute(s, "excerpt"))
         \/ getBlockCount(s, UNDEFINED) > 0

\* ------------------------------------------------------ post fixtures
MaxTransactions == 2

Attributes(status, title, excerpt) ==
    [ status |-> status, date |-> UNDEFINED, title |-> title,
      excerpt |-> excerpt, content |-> UNDEFINED ]

\* The states of describe( 'isEditedPostPublishable' ) with the dirty
\* published post expected not to be publishable.
PublishableFixtures_DirtyPublishedDenied ==
    { [ isDirty |-> FALSE, status |-> "pending", expected |-> TRUE ],
      [ isDirty |-> FALSE, status |-> "draft",   expected |-> TRUE ],
      [ isDirty |-> FALSE, status |-> "publish", expected |-> FALSE ],
      [ isDirty |-> TRUE,  status |-> "publish", expected |-> FALSE ],
      [ isDirty |-> FALSE, status |-> "private", expected |-> FALSE ],
      [ isDirty |-> FALSE, status |-> "future",  expected |-> FALSE ],
      [ isDirty |-> TRUE,  status |-> "private", expected |-> TRUE ] }

\* The states of describe( 'isEditedPostPublishable' ) and what each test
\* expects.
PublishableFixtures ==
    { [ isDirty |-> FALSE, status |-> "pending", expected |-> TRUE ],
      [ isDirty |-> FALSE, status |-> "draft",   expected |-> TRUE ],
      [ isDirty |-> FALSE, status |-> "publish", expected |-> FALSE ],
      [ isDirty |-> TRUE,  status |-> "publish", expected |-> TRUE ],
      [ isDirty |-> FALSE, status |-> "private", expected |-> FALSE ],
      [ isDirty |-> FALSE, status |-> "future",  expected |-> FALSE ],
      [ isDirty |-> TRUE,  status |-> "private", expected |-> TRUE ] }

\* The post of a publishable fixture: only the dirty flag and the status set.
PublishablePost(f) ==
    [ NoPost EXCEPT !.isDirty = f.isDirty, !.currentPost.status = f.status ]

\* The block of the 'has content' test and the order that holds it.
TestBlock == [ name |-> "core/test-block", layout |-> UNDEFINED ]
OneBlock == ("123" :> TestBlock)
OneBlockOrder == (ROOT :> << "123" >>)

\* The states of describe( 'isEditedPostSaveable' ) with the post that has
\* only an excerpt expected not to be saveable.
SaveableFixtures_ExcerptDenied ==
    { [ blocks |-> EmptyMap, order |-> EmptyMap, title |-> UNDEFINED,
        excerpt |-> UNDEFINED, requesting |-> FALSE, expected |-> FALSE ],
      [ blocks |-> EmptyMap, order |-> EmptyMap, title |-> "sassel",
        excerpt |-> UNDEFINED, requesting |-> TRUE, expected |-> FALSE ],
      [ blocks |-> EmptyMap, order |-> EmptyMap, title |-> "sassel",
        excerpt |-> UNDEFINED, requesting |-> FALSE, expected |-> TRUE ],
      [ blocks |-> EmptyMap, order |-> EmptyMap, title |-> UNDEFINED,
        excerpt |-> "sassel", requesting |-> FALSE, expected |-> FALSE ],
      [ blocks |-> OneBlock, order |-> OneBlockOrder, title |-> UNDEFINED,
        excerpt |-> UNDEFINED, requesting |-> FALSE, expected |-> TRUE ] }

\* The states of describe( 'isEditedPostSaveable' ) and what each test
\* expects.  The tests' `saving: {}` has no requesting key: not requesting.
SaveableFixtures ==
    { [ blocks |-> EmptyMap, order |-> EmptyMap, title |-> UNDEFINED,
        excerpt |-> UNDEFINED, requesting |-> FALSE, expected |-> FALSE ],
      [ blocks |-> EmptyMap, order |-> EmptyMap, title |-> "sassel",
        excerpt |-> UNDEFINED, requesting |-> TRUE, expected |-> FALSE ],
      [ blocks |-> EmptyMap, order |-> EmptyMap, title |-> "sassel",
        excerpt |-> UNDEFINED, requesting |-> FALSE, expected |-> TRUE ],
      [ blocks |-> EmptyMap, order |-> EmptyMap, title |-> UNDEFINED,
        excerpt |-> "sassel", requesting |-> FALSE, expected |-> TRUE ],
      [ blocks |-> OneBlock, order |-> OneBlockOrder, title |-> UNDEFINED,
        excerpt |-> UNDEFINED, requesting |-> FALSE, expected |-> TRUE ] }

\* The post of a saveable fixture: no edits, the title and excerpt given.
SaveablePost(f) ==
    [ NoPost EXCEPT !.currentPost = Attributes(UNDEFINED, f.title, f.excerpt),
                    !.requesting = f.requesting ]

\* ---------------------------------------------------- post state machine
Statuses == { UNDEFINED, "pending", "draft" } \cup UnpublishableStatuses
Titles == { UNDEFINED, "", "sassel" }
EditedTitles == { UNDEFINED, "youcha" }
Excerpts == { UNDEFINED, "sassel" }
Contents == { UNDEFINED, "sassel" }
Transactions ==
    { TransactionWithoutBeforeState, Transaction(FALSE), Transaction(TRUE) }
Optimists == UNION { [ 1..n -> Transactions ] : n \in 0..MaxTransactions }

\* Every post over the values above, on a document of no block or of one;
\* the fixtures' states are among them.
InitPost ==
    /\ \E isDirty \in BOOLEAN, optimist \in Optimists, status \in Statuses,
          title \in Titles, edited \in EditedTitles, excerpt \in Excerpts,
          content \in Contents, requesting \in BOOLEAN :
           post = [ isDirty     |-> isDirty,
                    optimist    |-> optimist,
                    currentPost |-> Attributes(status, title, excerpt),
                    edits       |-> [ NoAttributes EXCEPT !.title = edited,
                                                          !.content = content ],
                    requesting  |-> requesting,
                    autosave    |-> NoAutosave ]
    /\ \/ blocksByClientId = EmptyMap /\ blockOrder = EmptyMap
       \/ blocksByClientId = OneBlock /\ blockOrder = OneBlockOrder
    /\ blockSelection = NoSelection
    /\ settings = NoSettings
    /\ blockListSettings = EmptyMap
    /\ insertUsage = EmptyMap
    /\ reusableBlocks = EmptyMap
    /\ refs = NoRefs
    /\ cache = NoCache
    /\ NotCalled

CallIsEditedPostPublishable ==
    /\ called' = "isEditedPostPublishable"
    /\ arg' = UNDEFINED
    /\ calledOn' = Snapshot
    /\ result' = isEditedPostPublishable(state)
    /\ UNCHANGED cache
    /\ UnchangedStore

CallIsEditedPostSaveable ==
    /\ called' = "isEditedPostSaveable"
    /\ arg' = UNDEFINED
    /\ calledOn' = Snapshot
    /\ result' = isEditedPostSaveable(state)
    /\ UNCHANGED cache
    /\ UnchangedStore

NextPost ==
    \/ CallIsEditedPostPublishable
    \/ CallIsEditedPostSaveable

SpecPost == InitPost /\ [][NextPost]_vars

\* ---------------------------------------------------------------- C9
\* The post is dirty: the editor holds unsaved changes, or did when a
\* transaction that is still pending was started.
PostIsDirty ==
    \/ post.isDirty
    \/ \E t \in Range(post.optimist) : t.hasBeforeState /\ t.beforeState.isDirty

\* C9: isEditedPostPublishable returns true exactly when the post is dirty or
\* the current post's status is none of 'publish', 'private' and 'future':
\* a clean pending or draft post is publishable, a clean published, private
\* or scheduled post is not, any dirty post is; and the call returns what
\* the tests expect on the tests' states.
C9_PublishableIffDirtyOrUnpublished ==
    called = "isEditedPostPublishable" =>
        /\ result \in BOOLEAN
        /\ result = TRUE <=>
               (PostIsDirty \/ post.currentPost.status \notin { "publish", "private", "future" })
        /\ (~PostIsDirty /\ post.currentPost.status \in { "pending", "draft" })
               => result = TRUE
        /\ (~PostIsDirty /\ post.currentPost.status \in { "publish", "private", "future" })
               => result = FALSE
        /\ PostIsDirty => result = TRUE
        /\ \A f \in PublishableFixtures :
               post = PublishablePost(f) => result = f.expected

\* A published post with unsaved changes was found publishable.
C9_Witness ==
    /\ called = "isEditedPostPublishable"
    /\ post.isDirty
    /\ post.currentPost.status = "publish"
    /\ result = TRUE

\* --------------------------------------------------------------- C10
\* The edited value of a post attribute is a non-empty string.
PostHas(attributeName) ==
    LET value == IF post.edits[attributeName] # UNDEFINED
                 THEN post.edits[attributeName]
                 ELSE post.currentPost[attributeName]
    IN  value # UNDEFINED /\ value # ""

\* The document holds at least one top-level block.
PostHasBlocks == ROOT \in DOMAIN blockOrder /\ Len(blockOrder[ROOT]) >= 1

hasAutosave(s) == s.post.autosave.exists

\* isEditedPostAutosaveable( state )
isEditedPostAutosaveable(s) ==
    IF ~isEditedPostSaveable(s) THEN FALSE
    ELSE IF ~hasAutosave(s) THEN TRUE
    ELSE \E field \in { "title", "excerpt", "content" } :
             s.post.autosave[field] # getEditedPostAttribute(s, field)

Autosave(title, excerpt, content) ==
    [ exists |-> TRUE, title |-> title, excerpt |-> excerpt, content |-> content ]

FooPost == [ NoAttributes EXCEPT !.title = "foo", !.excerpt = "foo", !.content = "foo" ]
FooEdits == [ NoAttributes EXCEPT !.content = "foo" ]

\* describe( 'isEditedPostAutosaveable' ) with the post whose autosave
\* holds the edited title, excerpt and content expected to be autosaveable.
AutosaveableFixtures_UnchangedIsAutosaveable ==
    { [ post |-> [ NoPost EXCEPT !.currentPost.title = "sassel", !.requesting = TRUE,
                                 !.autosave = Autosave("sassel", UNDEFINED, UNDEFINED) ],
        expected |-> FALSE ],
      [ post |-> [ NoPost EXCEPT !.currentPost.title = "sassel" ], expected |-> TRUE ],
      [ post |-> [ NoPost EXCEPT !.currentPost = FooPost, !.edits = FooEdits,
                                 !.autosave = Autosave("foo", "foo", "foo") ],
        expected |-> TRUE ] }

\* The states of describe( 'isEditedPostAutosaveable' ) and what each test
\* expects; the last test runs over each variant field, changed to 'bar',
\* and each other field kept, the third field missing from the autosave.
AutosaveableFixtures ==
    { [ post |-> [ NoPost EXCEPT !.currentPost.title = "sassel", !.requesting = TRUE,
                                 !.autosave = Autosave("sassel", UNDEFINED, UNDEFINED) ],
        expected |-> FALSE ],
      [ post |-> [ NoPost EXCEPT !.currentPost.title = "sassel" ], expected |-> TRUE ],
      [ post |-> [ NoPost EXCEPT !.currentPost = FooPost, !.edits = FooEdits,
                                 !.autosave = Autosave("foo", "foo", "foo") ],
        expected |-> FALSE ] }
    \cup
    { [ post |-> [ NoPost EXCEPT
                     !.currentPost = FooPost, !.edits = FooEdits,
                     !.autosave = [ [ NoAutosave EXCEPT !.exists = TRUE ]
                                      EXCEPT ![constantField] = "foo",
                                             ![variantField] = "bar" ] ],
        expected |-> TRUE ] :
        << variantField, constantField >> \in
            { x \in { "title", "excerpt", "content" } \X { "title", "excerpt", "content" } :
                x[1] # x[2] } }

AutosaveValues == { UNDEFINED, "foo", "bar" }
Autosaves ==
    { NoAutosave } \cup
    { Autosave(t, e, c) : << t, e, c >> \in AutosaveValues \X AutosaveValues \X AutosaveValues }

\* The states of the tests, and every post whose saved title, excerpt and
\* content are 'foo' or missing, with or without an edit of the title and
\* of the content, an autosave or none, a save in progress or none.
InitAutosave ==
    /\ \/ \E f \in AutosaveableFixtures : post = f.post
       \/ \E title \in { UNDEFINED, "foo" }, excerpt \in { UNDEFINED, "foo" },
             content \in { UNDEFINED, "foo" }, editedTitle \in { UNDEFINED, "bar" },
             editedContent \in AutosaveValues, autosave \in Autosaves,
             requesting \in BOOLEAN :
              post = [ NoPost EXCEPT
                         !.currentPost = [ NoAttributes EXCEPT !.title = title,
                                             !.excerpt = excerpt, !.content = content ],
                         !.edits = [ NoAttributes EXCEPT !.title = editedTitle,
                                                         !.content = editedContent ],
                         !.requesting = requesting,
                         !.autosave = autosave ]
    /\ \/ blocksByClientId = EmptyMap /\ blockOrder = EmptyMap
       \/ blocksByClientId = OneBlock /\ blockOrder = OneBlockOrder
    /\ blockSelection = NoSelection
    /\ settings = NoSettings
    /\ blockListSettings = EmptyMap
    /\ insertUsage = EmptyMap
    /\ reusableBlocks = EmptyMap
    /\ refs = NoRefs
    /\ cache = NoCache
    /\ NotCalled

CallIsEditedPostAutosaveable ==
    /\ called' = "isEditedPostAutosaveable"
    /\ arg' = UNDEFINED
    /\ calledOn' = Snapshot
    /\ result' = isEditedPostAutosaveable(state)
    /\ UNCHANGED cache
    /\ UnchangedStore

NextAutosave ==
    \/ CallIsEditedPostAutosaveable
    \/ CallIsEditedPostSaveable

SpecAutosave == InitAutosave /\ [][NextAutosave]_vars

\* --------------------------------------------------------------- C11
\* The post is saveable: no save in progress, and a title, an excerpt or a
\* block.
PostIsSaveable ==
    /\ ~post.requesting
    /\ (PostHas("title") \/ PostHas("excerpt") \/ PostHasBlocks)

\* The edited value of a post attribute.
Edited(attributeName) ==
    IF post.edits[attributeName] # UNDEFINED
    THEN post.edits[attributeName]
    ELSE post.currentPost[attributeName]

\* C11: isEditedPostAutosaveable returns false if the post is not saveable;
\* otherwise true if there is not yet an autosave; otherwise true exactly
\* when the edited title, excerpt or content differs from the same field of
\* the stored autosave, so false when none of the three has changed; and the
\* call returns what the tests expect on the tests' states.
C11_AutosaveableIffSaveableAndChanged ==
    called = "isEditedPostAutosaveable" =>
        /\ result \in BOOLEAN
        /\ ~PostIsSaveable => result = FALSE
        /\ (PostIsSaveable /\ ~post.autosave.exists) => result = TRUE
        /\ (PostIsSaveable /\ post.autosave.exists) =>
               (result = TRUE <=>
                    \/ Edited("title") # post.autosave.title
                    \/ Edited("excerpt") # post.autosave.excerpt
                    \/ Edited("content") # post.autosave.content)
        /\ \A f \in AutosaveableFixtures :
               (post = f.post /\ blocksByClientId = EmptyMap) => result = f.expected

\* A saveable post with an autosave was found autosaveable because only its
\* edited content differs from the autosave's.
C11_Witness ==
    /\ called = "isEditedPostAutosaveable"
    /\ PostIsSaveable
    /\ post.autosave.exists
    /\ Edited("title") = post.autosave.title
    /\ Edited("excerpt") = post.autosave.excerpt
    /\ Edited("content") # post.autosave.content
    /\ result = TRUE

\* ============================================== publishing and scheduling
\* The instants the model tells apart, in their order: the past date and
\* the future date of the tests and one instant between them.  A date is
\* the string of the instant; moment( date ) is its place in the order.
Dates == << "2016-05-30T17:21:39", "2018-10-01T00:00:00", "2100-05-30T17:21:39" >>
PastDate == Dates[1]
TestNow == Dates[2]
FutureDate == Dates[3]

\* moment( date ): only applied to the dates above.
Instant(date) == CHOOSE i \in 1..Len(Dates) : Dates[i] = date

\* moment( a ).isBefore( moment( b ) )
isBefore(a, b) == Instant(a) < Instant(b)

\* isCurrentPostPublished( state ), evaluated at the instant now
isCurrentPostPublished(s, now) ==
    \/ s.post.currentPost.status \in { "publish", "private" }
    \/ /\ s.post.currentPost.status = "future"
       /\ isBefore(s.post.currentPost.date, now)

\* isCurrentPostScheduled( state ), evaluated at the instant now
isCurrentPostScheduled(s, now) ==
    /\ s.post.currentPost.status = "future"
    /\ ~isCurrentPostPublished(s, now)

POST_UPDATE_TRANSACTION_ID == "post-update"

\* getStateBeforeOptimisticTransaction( state, transactionId ): the before
\* state of the first pending transaction of that id that has one; null
\* ( found is FALSE ) when there is none.
getStateBeforeOptimisticTransaction(s, transactionId) ==
    LET matches == { i \in 1..Len(s.post.optimist) :
                       /\ s.post.optimist[i].hasBeforeState
                       /\ s.post.optimist[i].id = transactionId }
    IN  IF matches = {}
        THEN [ found |-> FALSE, beforeState |-> BeforeState(FALSE, NoAttributes) ]
        ELSE [ found |-> TRUE,
               beforeState |->
                   s.post.optimist[CHOOSE i \in matches : \A j \in matches : i <= j].beforeState ]

\* The before state of a transaction, as a state handed to a selector.
StateBefore(beforeState) ==
    [ post |-> [ NoPost EXCEPT !.isDirty = beforeState.isDirty,
                               !.currentPost = beforeState.currentPost ] ]

\* isPublishingPost( state ), evaluated at the instant now
isPublishingPost(s, now) ==
    IF ~isSavingPost(s) THEN FALSE
    ELSE IF ~isCurrentPostPublished(s, now) THEN FALSE
    ELSE LET stateBeforeRequest ==
                 getStateBeforeOptimisticTransaction(s, POST_UPDATE_TRANSACTION_ID)
         IN  /\ stateBeforeRequest.found
             /\ ~isCurrentPostPublished(StateBefore(stateBeforeRequest.beforeState), now)

\* ------------------------------------------- publish fixtures and states
\* A post of a status and a date, nothing else set.
PostOf(status, date) ==
    [ NoPost EXCEPT !.currentPost.status = status, !.currentPost.date = date ]

\* A pending transaction of an id started from a state whose current post
\* has the status and the date.
TransactionOf(id, isDirty, status, date) ==
    [ id |-> id, hasBeforeState |-> TRUE,
      beforeState |-> BeforeState(isDirty, [ NoAttributes EXCEPT !.status = status,
                                                                 !.date = date ]) ]

\* A pending transaction of an id that lacks a before state.
TransactionLackingBeforeState(id) == [ TransactionWithoutBeforeState EXCEPT !.id = id ]

\* describe( 'isCurrentPostPublished' ) and describe(
\* 'isCurrentPostScheduled' ) with the old scheduled post expected not yet
\* published and still scheduled.
StatusFixtures_OldScheduledPending ==
    { [ selector |-> "isCurrentPostPublished", status |-> "publish", date |-> UNDEFINED, expected |-> TRUE ],
      [ selector |-> "isCurrentPostPublished", status |-> "private", date |-> UNDEFINED, expected |-> TRUE ],
      [ selector |-> "isCurrentPostPublished", status |-> "draft", date |-> UNDEFINED, expected |-> FALSE ],
      [ selector |-> "isCurrentPostPublished", status |-> "future", date |-> PastDate, expected |-> FALSE ],
      [ selector |-> "isCurrentPostScheduled", status |-> "future", date |-> FutureDate, expected |-> TRUE ],
      [ selector |-> "isCurrentPostScheduled", status |-> "future", date |-> PastDate, expected |-> TRUE ],
      [ selector |-> "isCurrentPostScheduled", status |-> "auto-draft", date |-> UNDEFINED, expected |-> FALSE ],
      [ selector |-> "isCurrentPostScheduled", status |-> UNDEFINED, date |-> UNDEFINED, expected |-> FALSE ] }

\* The states of describe( 'isCurrentPostPublished' ) and describe(
\* 'isCurrentPostScheduled' ) and what each test expects.
StatusFixtures ==
    { [ selector |-> "isCurrentPostPublished", status |-> "publish", date |-> UNDEFINED, expected |-> TRUE ],
      [ selector |-> "isCurrentPostPublished", status |-> "private", date |-> UNDEFINED, expected |-> TRUE ],
      [ selector |-> "isCurrentPostPublished", status |-> "draft", date |-> UNDEFINED, expected |-> FALSE ],
      [ selector |-> "isCurrentPostPublished", status |-> "future", date |-> PastDate, expected |-> TRUE ],
      [ selector |-> "isCurrentPostScheduled", status |-> "future", date |-> FutureDate, expected |-> TRUE ],
      [ selector |-> "isCurrentPostScheduled", status |-> "future", date |-> PastDate, expected |-> FALSE ],
      [ selector |-> "isCurrentPostScheduled", status |-> "auto-draft", date |-> UNDEFINED, expected |-> FALSE ],
      [ selector |-> "isCurrentPostScheduled", status |-> UNDEFINED, date |-> UNDEFINED, expected |-> FALSE ] }

\* describe( 'isPublishingPost' ) with the post that was already published
\* before the request expected to be publishing.
PublishingFixtures_RepublishIsPublishing ==
    { [ post |-> PostOf("publish", UNDEFINED), expected |-> FALSE ],
      [ post |-> [ PostOf("draft", UNDEFINED) EXCEPT !.requesting = TRUE ], expected |-> FALSE ],
      [ post |-> [ PostOf("publish", UNDEFINED) EXCEPT !.requesting = TRUE ], expected |-> FALSE ],
      [ post |-> [ PostOf("publish", UNDEFINED) EXCEPT
                     !.requesting = TRUE,
                     !.optimist = << TransactionOf(POST_UPDATE_TRANSACTION_ID, FALSE,
                                                   "publish", UNDEFINED) >> ],
        expected |-> TRUE ],
      [ post |-> [ PostOf("publish", UNDEFINED) EXCEPT
                     !.requesting = TRUE,
                     !.optimist = << TransactionOf(POST_UPDATE_TRANSACTION_ID, FALSE,
                                                   "draft", UNDEFINED) >> ],
        expected |-> TRUE ] }

\* The states of describe( 'isPublishingPost' ) and what each test expects.
PublishingFixtures ==
    { [ post |-> PostOf("publish", UNDEFINED), expected |-> FALSE ],
      [ post |-> [ PostOf("draft", UNDEFINED) EXCEPT !.requesting = TRUE ], expected |-> FALSE ],
      [ post |-> [ PostOf("publish", UNDEFINED) EXCEPT !.requesting = TRUE ], expected |-> FALSE ],
      [ post |-> [ PostOf("publish", UNDEFINED) EXCEPT
                     !.requesting = TRUE,
                     !.optimist = << TransactionOf(POST_UPDATE_TRANSACTION_ID, FALSE,
                                                   "publish", UNDEFINED) >> ],
        expected |-> FALSE ],
      [ post |-> [ PostOf("publish", UNDEFINED) EXCEPT
                     !.requesting = TRUE,
                     !.optimist = << TransactionOf(POST_UPDATE_TRANSACTION_ID, FALSE,
                                                   "draft", UNDEFINED) >> ],
        expected |-> TRUE ] }

\* describe( 'isEditedPostDirty' ) with the pending transaction started from
\* a dirty state expected to leave the post clean.
DirtyFixtures_TransactionIgnored ==
    { [ post |-> [ NoPost EXCEPT !.isDirty = TRUE ], expected |-> TRUE ],
      [ post |-> [ NoPost EXCEPT !.optimist = << Transaction(TRUE) >> ], expected |-> FALSE ],
      [ post |-> NoPost, expected |-> FALSE ] }

\* The states of describe( 'isEditedPostDirty' ) and what each test expects.
DirtyFixtures ==
    { [ post |-> [ NoPost EXCEPT !.isDirty = TRUE ], expected |-> TRUE ],
      [ post |-> [ NoPost EXCEPT !.optimist = << Transaction(TRUE) >> ], expected |-> TRUE ],
      [ post |-> NoPost, expected |-> FALSE ] }

\* ------------------------------------------------ publish state machine
\* The status and date of a current post: a scheduled post has a date.
StatusesAndDates ==
    { << st, UNDEFINED >> : st \in { UNDEFINED, "draft", "auto-draft", "publish", "private" } }
    \cup { << "future", Dates[i] >> : i \in 1..Len(Dates) }

\* Pending transactions: of the post update or of another action, started
\* from a clean or a dirty state and from a post of some status, or lacking
\* a before state.
PublishTransactions ==
    { TransactionLackingBeforeState(POST_UPDATE_TRANSACTION_ID),
      Transaction(TRUE),
      Transaction(FALSE),
      TransactionOf("other", FALSE, "draft", UNDEFINED) }
    \cup { TransactionOf(POST_UPDATE_TRANSACTION_ID, FALSE, sd[1], sd[2]) :
             sd \in { << "draft", UNDEFINED >>, << "publish", UNDEFINED >>,
                      << "future", PastDate >>, << "future", FutureDate >> } }

PublishOptimists == UNION { [ 1..n -> PublishTransactions ] : n \in 0..MaxTransactions }

InitPublish ==
    /\ \E sd \in StatusesAndDates, optimist \in PublishOptimists,
          isDirty \in BOOLEAN, requesting \in BOOLEAN :
           post = [ PostOf(sd[1], sd[2]) EXCEPT !.optimist = optimist,
                                                !.isDirty = isDirty,
                                                !.requesting = requesting ]
    /\ blocksByClientId = EmptyMap
    /\ blockOrder = EmptyMap
    /\ blockSelection = NoSelection
    /\ settings = NoSettings
    /\ blockListSettings = EmptyMap
    /\ insertUsage = EmptyMap
    /\ reusableBlocks = EmptyMap
    /\ refs = NoRefs
    /\ cache = NoCache
    /\ NotCalled

CallIsCurrentPostPublished(now) ==
    /\ called' = "isCurrentPostPublished"
    /\ arg' = [ now |-> now ]
    /\ calledOn' = Snapshot
    /\ result' = isCurrentPostPublished(state, now)
    /\ UNCHANGED cache
    /\ UnchangedStore

CallIsCurrentPostScheduled(now) ==
    /\ called' = "isCurrentPostScheduled"
    /\ arg' = [ now |-> now ]
    /\ calledOn' = Snapshot
    /\ result' = isCurrentPostScheduled(state, now)
    /\ UNCHANGED cache
    /\ UnchangedStore

CallIsPublishingPost(now) ==
    /\ called' = "isPublishingPost"
    /\ arg' = [ now |-> now ]
    /\ calledOn' = Snapshot
    /\ result' = isPublishingPost(state, now)
    /\ UNCHANGED cache
    /\ UnchangedStore

CallIsEditedPostDirty ==
    /\ called' = "isEditedPostDirty"
    /\ arg' = UNDEFINED
    /\ calledOn' = Snapshot
    /\ result' = isEditedPostDirty(state)
    /\ UNCHANGED cache
    /\ UnchangedStore

NextPublish ==
    \/ \E i \in 1..Len(Dates) : CallIsCurrentPostPublished(Dates[i])
    \/ \E i \in 1..Len(Dates) : CallIsCurrentPostScheduled(Dates[i])
    \/ \E i \in 1..Len(Dates) : CallIsPublishingPost(Dates[i])
    \/ CallIsEditedPostDirty

SpecPublish == InitPublish /\ [][NextPublish]_vars

\* --------------------------------------------------------------- C13
\* C13: isEditedPostDirty returns true when editor.isDirty is true, and also
\* when editor.isDirty is false but the before state of some pending
\* optimistic transaction has editor.isDirty true; it returns false only
\* when neither the current state nor the before state of any pending
\* transaction is dirty; and the call returns what the tests expect.
C13_DirtyNowOrBeforeTransaction ==
    called = "isEditedPostDirty" =>
        /\ result \in BOOLEAN
        /\ post.isDirty => result = TRUE
        /\ ( /\ ~post.isDirty
             /\ \E i \in 1..Len(post.optimist) :
                    /\ post.optimist[i].hasBeforeState
                    /\ post.optimist[i].beforeState.isDirty ) => result = TRUE
        /\ result = FALSE <=>
               /\ ~post.isDirty
               /\ \A i \in 1..Len(post.optimist) :
                      ~(post.optimist[i].hasBeforeState /\ post.optimist[i].beforeState.isDirty)
        /\ \A f \in DirtyFixtures : post = f.post => result = f.expected

\* A post that is clean now, with a clean and a dirty pending transaction,
\* was found dirty.
C13_Witness ==
    /\ called = "isEditedPostDirty"
    /\ ~post.isDirty
    /\ Len(post.optimist) = 2
    /\ post.optimist[1] = Transaction(FALSE)
    /\ post.optimist[2] = Transaction(TRUE)
    /\ result = TRUE

\* --------------------------------------------------------------- C14
\* A post of these attributes is considered published at the instant now:
\* its status is 'publish' or 'private', or it is 'future' with a date
\* before now.
PublishedAt(currentPost, now) ==
    \/ currentPost.status = "publish"
    \/ currentPost.status = "private"
    \/ /\ currentPost.status = "future"
       /\ \E i, j \in 1..Len(Dates) :
              i < j /\ Dates[i] = currentPost.date /\ Dates[j] = now

\* C14: isCurrentPostPublished is true exactly when the current post's
\* status is 'publish' or 'private', or is 'future' with a date that is
\* already in the past; isCurrentPostScheduled is true exactly when the
\* status is 'future' and the date is not in the past (a post dated at the
\* very instant of the call counts as still scheduled), and is false when
\* the status is unknown; and both return what the tests expect when called
\* between the tests' past and future dates.
C14_PublishedAndScheduledByStatusAndDate ==
    /\ called = "isCurrentPostPublished" =>
           /\ result \in BOOLEAN
           /\ result = TRUE <=> PublishedAt(post.currentPost, arg.now)
    /\ called = "isCurrentPostScheduled" =>
           /\ result \in BOOLEAN
           /\ result = TRUE <=>
                  /\ post.currentPost.status = "future"
                  /\ \E i, j \in 1..Len(Dates) :
                         i <= j /\ Dates[i] = arg.now /\ Dates[j] = post.currentPost.date
           /\ post.currentPost.status = UNDEFINED => result = FALSE
    /\ called \in { "isCurrentPostPublished", "isCurrentPostScheduled" } =>
           \A f \in StatusFixtures :
               ( /\ called = f.selector
                 /\ post = PostOf(f.status, f.date)
                 /\ arg.now = TestNow ) => result = f.expected

\* A scheduled post whose date has passed was found published.
C14_Witness ==
    /\ called = "isCurrentPostPublished"
    /\ post.currentPost.status = "future"
    /\ post.currentPost.date = PastDate
    /\ arg.now = TestNow
    /\ result = TRUE

\* --------------------------------------------------------------- C12
\* The pending transactions of the post update that have a before state.
PostUpdatesWithBeforeState ==
    { i \in 1..Len(post.optimist) :
        /\ post.optimist[i].id = POST_UPDATE_TRANSACTION_ID
        /\ post.optimist[i].hasBeforeState }

\* C12: isPublishingPost returns true only when the post is being saved, the
\* current post is considered published, a pending transaction of id
\* POST_UPDATE_TRANSACTION_ID with a before state exists, and in that before
\* state (of the first such transaction) the current post was not
\* published; it returns false when any one of these fails; and the call
\* returns what the tests expect.
C12_PublishingIffSavingNewlyPublished ==
    called = "isPublishingPost" =>
        /\ result \in BOOLEAN
        /\ ~post.requesting => result = FALSE
        /\ ~PublishedAt(post.currentPost, arg.now) => result = FALSE
        /\ PostUpdatesWithBeforeState = {} => result = FALSE
        /\ result = TRUE <=>
               /\ post.requesting
               /\ PublishedAt(post.currentPost, arg.now)
               /\ \E i \in PostUpdatesWithBeforeState :
                      /\ \A j \in PostUpdatesWithBeforeState : i <= j
                      /\ ~PublishedAt(post.optimist[i].beforeState.currentPost, arg.now)
        /\ \A f \in PublishingFixtures : post = f.post => result = f.expected

\* A published post being saved was found publishing: the post update's
\* first transaction lacks a before state, the second started from a draft.
C12_Witness ==
    /\ called = "isPublishingPost"
    /\ post.requesting
    /\ post.currentPost.status = "publish"
    /\ Len(post.optimist) = 2
    /\ post.optimist[1] = TransactionLackingBeforeState(POST_UPDATE_TRANSACTION_ID)
    /\ post.optimist[2] = TransactionOf(POST_UPDATE_TRANSACTION_ID, FALSE, "draft", UNDEFINED)
    /\ result = TRUE

\* ===================================================== the selected block
\* hasSelectedBlock( state )
hasSelectedBlock(s) ==
    /\ s.blockSelection.start # NULL
    /\ s.blockSelection.start = s.blockSelection.end

\* A block or null, as a selector returns it.
NullBlock == [ isNull |-> TRUE, clientId |-> NULL, name |-> NULL, innerBlocks |-> << >> ]
BlockObject(clientId, name, innerBlocks) ==
    [ isNull |-> FALSE, clientId |-> clientId, name |-> name, innerBlocks |-> innerBlocks ]

\* getBlock( state, clientId ) as a value: the block with its inner blocks,
\* null when the state has no block of that id.
RECURSIVE getBlockWithInnerBlocks(_, _)
getBlockWithInnerBlocks(s, clientId) ==
    IF clientId \notin DOMAIN s.blocksByClientId
    THEN NullBlock
    ELSE LET order == getBlockOrder(s, clientId)
         IN  BlockObject(clientId, s.blocksByClientId[clientId].name,
                         [ i \in 1..Len(order) |-> getBlockWithInnerBlocks(s, order[i]) ])

\* getSelectedBlock( state )
getSelectedBlock(s) ==
    LET clientId == getSelectedBlockClientId(s)
    IN  IF clientId # NULL THEN getBlockWithInnerBlocks(s, clientId) ELSE NullBlock

Selection(start, end) == [ start |-> start, end |-> end ]

\* The states of describe( 'hasSelectedBlock' ) and what each test expects.
HasSelectedBlockFixtures ==
    { [ blockSelection |-> Selection(NULL, NULL), expected |-> FALSE ],
      [ blockSelection |-> Selection("afd1cb17-2c08-4e7a-91be-007ba7ddc3a1",
                                     "9db792c6-a25a-495d-adbd-97d56a4c4189"),
        expected |-> FALSE ],
      [ blockSelection |-> Selection("afd1cb17-2c08-4e7a-91be-007ba7ddc3a1",
                                     "afd1cb17-2c08-4e7a-91be-007ba7ddc3a1"),
        expected |-> TRUE ] }

\* describe( 'getSelectedBlockClientId' ) with the start of the
\* multi-selection expected.
SelectedBlockClientIdFixtures_StartOfMultiSelection ==
    { [ blockSelection |-> Selection(NULL, NULL), expected |-> NULL ],
      [ blockSelection |-> Selection("23", "123"), expected |-> "23" ],
      [ blockSelection |-> Selection("23", "23"), expected |-> "23" ] }

\* The states of describe( 'getSelectedBlockClientId' ) and what each test
\* expects.
SelectedBlockClientIdFixtures ==
    { [ blockSelection |-> Selection(NULL, NULL), expected |-> NULL ],
      [ blockSelection |-> Selection("23", "123"), expected |-> NULL ],
      [ blockSelection |-> Selection("23", "23"), expected |-> "23" ] }

\* The blocks of describe( 'getSelectedBlock' ).
HeadingAndParagraph ==
    ("23" :> NamedBlock("core/heading")) @@ ("123" :> NamedBlock("core/paragraph"))
HeadingAndParagraphOrder ==
    (ROOT :> << "23", "123" >>) @@ ("23" :> << >>) @@ ("123" :> << >>)

\* The states of describe( 'getSelectedBlock' ), all on the blocks above,
\* and what each test expects.
SelectedBlockFixtures ==
    { [ blockSelection |-> Selection(NULL, NULL), expected |-> NullBlock ],
      [ blockSelection |-> Selection("23", "123"), expected |-> NullBlock ],
      [ blockSelection |-> Selection("23", "23"),
        expected |-> BlockObject("23", "core/heading", << >>) ] }

\* The states of the three describes, and every block tree with every
\* selection the editor can hold.
InitSelected ==
    /\ \/ /\ \/ \E f \in HasSelectedBlockFixtures : blockSelection = f.blockSelection
             \/ \E f \in SelectedBlockClientIdFixtures : blockSelection = f.blockSelection
          /\ blocksByClientId = EmptyMap
          /\ blockOrder = EmptyMap
       \/ \E f \in SelectedBlockFixtures :
             /\ blockSelection = f.blockSelection
             /\ blocksByClientId = HeadingAndParagraph
             /\ blockOrder = HeadingAndParagraphOrder
       \/ \E tr \in BlockTrees :
             /\ blockOrder = TreeOrder(tr)
             /\ blockSelection \in Selections(TreeOrder(tr))
             /\ blocksByClientId = [ id \in TreeIds(tr) |-> NamedBlock("core/paragraph") ]
    /\ InitOther
    /\ NotCalled

CallHasSelectedBlock ==
    /\ called' = "hasSelectedBlock"
    /\ arg' = UNDEFINED
    /\ calledOn' = Snapshot
    /\ result' = hasSelectedBlock(state)
    /\ UNCHANGED cache
    /\ UnchangedStore

CallGetSelectedBlockClientId ==
    /\ called' = "getSelectedBlockClientId"
    /\ arg' = UNDEFINED
    /\ calledOn' = Snapshot
    /\ result' = getSelectedBlockClientId(state)
    /\ UNCHANGED cache
    /\ UnchangedStore

CallGetSelectedBlock ==
    /\ called' = "getSelectedBlock"
    /\ arg' = UNDEFINED
    /\ calledOn' = Snapshot
    /\ result' = getSelectedBlock(state)
    /\ UNCHANGED cache
    /\ UnchangedStore

NextSelected ==
    \/ CallHasSelectedBlock
    \/ CallGetSelectedBlockClientId
    \/ CallGetSelectedBlock

SpecSelected == InitSelected /\ [][NextSelected]_vars

\* --------------------------------------------------------------- C15
\* One block is selected: start is set and end is the same block.
OneBlockSelected ==
    /\ blockSelection.start # NULL
    /\ blockSelection.end = blockSelection.start

\* C15: hasSelectedBlock returns true, and getSelectedBlockClientId returns
\* the selected id, exactly when blockSelection.start is set and equals
\* blockSelection.end; with no selection or with a multi-selection
\* hasSelectedBlock is false and getSelectedBlockClientId and
\* getSelectedBlock are null; with one block selected getSelectedBlock is
\* that block, if the state holds it; and the calls return what the tests
\* expect.
C15_SelectedBlockIffStartIsEnd ==
    /\ called = "hasSelectedBlock" =>
           /\ result = OneBlockSelected
           /\ \A f \in HasSelectedBlockFixtures :
                  blockSelection = f.blockSelection => result = f.expected
    /\ called = "getSelectedBlockClientId" =>
           /\ OneBlockSelected => result = blockSelection.start
           /\ ~OneBlockSelected => result = NULL
           /\ \A f \in SelectedBlockClientIdFixtures :
                  blockSelection = f.blockSelection => result = f.expected
    /\ called = "getSelectedBlock" =>
           /\ ~OneBlockSelected => result.isNull
           /\ (OneBlockSelected /\ blockSelection.start \in DOMAIN blocksByClientId) =>
                  /\ ~result.isNull
                  /\ result.clientId = blockSelection.start
                  /\ result.name = blocksByClientId[blockSelection.start].name
                  /\ [ i \in 1..Len(result.innerBlocks) |-> result.innerBlocks[i].clientId ]
                         = blockOrder[blockSelection.start]
           /\ \A f \in SelectedBlockFixtures :
                  ( /\ blockSelection = f.blockSelection
                    /\ blocksByClientId = HeadingAndParagraph
                    /\ blockOrder = HeadingAndParagraphOrder ) => result = f.expected

\* With a multi-selection in a list of inner blocks, no block was found
\* selected.
C15_Witness ==
    /\ called = "getSelectedBlockClientId"
    /\ blockSelection.start # NULL
    /\ blockSelection.end # NULL
    /\ blockSelection.start # blockSelection.end
    /\ ROOT \in DOMAIN blockOrder
    /\ blockSelection.start \notin Range(blockOrder[ROOT])
    /\ result = NULL

\* ================================================ the suggested post format
\* The post format of a block type, null for a type without one.
FormatOfBlockName(name) ==
    CASE name = "core/image" -> "image"
      [] name = "core/quote" -> "quote"
      [] name = "core-embed/youtube" -> "video"
      [] OTHER -> NULL

\* getSuggestedPostFormat( state )
getSuggestedPostFormat(s) ==
    LET blocks == getBlockOrder(s, UNDEFINED)
        name ==
            IF Len(blocks) = 1
            THEN getBlockName(s, blocks[1])
            ELSE IF /\ Len(blocks) = 2
                    /\ getBlockName(s, blocks[1]) = "core/quote"
                    /\ getBlockName(s, blocks[2]) = "core/paragraph"
                 THEN getBlockName(s, blocks[1])
                 ELSE NULL
    IN  FormatOfBlockName(name)

\* describe( 'getSuggestedPostFormat' ) with the post of an image and a
\* quote expected to be an image post.
SuggestedFormatFixtures_FirstOfTwo ==
    { [ order |-> EmptyMap, blocks |-> EmptyMap, expected |-> NULL ],
      [ order |-> (ROOT :> << "123", "456" >>),
        blocks |-> ("123" :> NamedBlock("core/image")) @@ ("456" :> NamedBlock("core/quote")),
        expected |-> "image" ],
      [ order |-> (ROOT :> << "123" >>),
        blocks |-> ("123" :> NamedBlock("core/image")), expected |-> "image" ],
      [ order |-> (ROOT :> << "456" >>),
        blocks |-> ("456" :> NamedBlock("core/quote")), expected |-> "quote" ],
      [ order |-> (ROOT :> << "567" >>),
        blocks |-> ("567" :> NamedBlock("core-embed/youtube")), expected |-> "video" ],
      [ order |-> (ROOT :> << "456", "789" >>),
        blocks |-> ("456" :> NamedBlock("core/quote")) @@ ("789" :> NamedBlock("core/paragraph")),
        expected |-> "quote" ] }

\* The states of describe( 'getSuggestedPostFormat' ) and what each test
\* expects.
SuggestedFormatFixtures ==
    { [ order |-> EmptyMap, blocks |-> EmptyMap, expected |-> NULL ],
      [ order |-> (ROOT :> << "123", "456" >>),
        blocks |-> ("123" :> NamedBlock("core/image")) @@ ("456" :> NamedBlock("core/quote")),
        expected |-> NULL ],
      [ order |-> (ROOT :> << "123" >>),
        blocks |-> ("123" :> NamedBlock("core/image")), expected |-> "image" ],
      [ order |-> (ROOT :> << "456" >>),
        blocks |-> ("456" :> NamedBlock("core/quote")), expected |-> "quote" ],
      [ order |-> (ROOT :> << "567" >>),
        blocks |-> ("567" :> NamedBlock("core-embed/youtube")), expected |-> "video" ],
      [ order |-> (ROOT :> << "456", "789" >>),
        blocks |-> ("456" :> NamedBlock("core/quote")) @@ ("789" :> NamedBlock("core/paragraph")),
        expected |-> "quote" ] }

FormatBlockNames == { "core/image", "core/quote", "core-embed/youtube", "core/paragraph" }

\* The states of the tests, and every post of up to MaxBlocks top-level
\* blocks of the block types of the tests.
InitSuggestedFormat ==
    /\ \/ \E f \in SuggestedFormatFixtures :
             blockOrder = f.order /\ blocksByClientId = f.blocks
       \/ \E n \in 0..MaxBlocks :
             /\ blockOrder = (ROOT :> [ i \in 1..n |-> ClientIdNames[i] ])
             /\ \E names \in [ { ClientIdNames[i] : i \in 1..n } -> FormatBlockNames ] :
                    blocksByClientId = [ id \in DOMAIN names |-> NamedBlock(names[id]) ]
    /\ blockSelection = NoSelection
    /\ InitOther
    /\ NotCalled

CallGetSuggestedPostFormat ==
    /\ called' = "getSuggestedPostFormat"
    /\ arg' = UNDEFINED
    /\ calledOn' = Snapshot
    /\ result' = getSuggestedPostFormat(state)
    /\ UNCHANGED cache
    /\ UnchangedStore

NextSuggestedFormat == CallGetSuggestedPostFormat

SpecSuggestedFormat == InitSuggestedFormat /\ [][NextSuggestedFormat]_vars

\* --------------------------------------------------------------- C16
\* The names of the post's top-level blocks, in order.
TopLevelNames ==
    IF ROOT \in DOMAIN blockOrder
    THEN [ i \in 1..Len(blockOrder[ROOT]) |-> blocksByClientId[blockOrder[ROOT][i]].name ]
    ELSE << >>

EMPTY_ARRAY == 0

\* The blocks getMultiSelectedBlocks( state ) lists: the multi-selected
\* blocks, in the order of getMultiSelectedBlockClientIds.
getMultiSelectedBlocksUnmemoized(s) ==
    LET ids == getMultiSelectedBlockClientIds(s)
    IN  [ i \in 1..Len(ids) |-> getBlockWithInnerBlocks(s, ids[i]) ]

\* getMultiSelectedBlocks( state ): the shared empty array for an empty
\* selection.  For a multi-selection the call either returns the array of
\* the previous call, when that was a call of this selector on this state
\* ( keep ), or makes a new array.
CallGetMultiSelectedBlocks(keep) ==
    LET blocks == getMultiSelectedBlocksUnmemoized(state)
        kept   == /\ keep
                  /\ called = "getMultiSelectedBlocks"
                  /\ calledOn.state = state
    IN  /\ blocks # << >> => (kept \/ refs.next <= MaxRefs)
        /\ called' = "getMultiSelectedBlocks"
        /\ arg' = UNDEFINED
        /\ calledOn' = Snapshot
        /\ result' = IF blocks = << >>
                     THEN [ ref |-> EMPTY_ARRAY, blocks |-> blocks ]
                     ELSE IF kept THEN result
                     ELSE [ ref |-> refs.next, blocks |-> blocks ]
        /\ refs' = IF blocks = << >> \/ kept
                   THEN refs
                   ELSE [ refs EXCEPT !.next = @ + 1 ]
        /\ UNCHANGED << blocksByClientId, blockOrder, blockSelection, settings,
                        blockListSettings, insertUsage, reusableBlocks, post,
                        cache >>

\* isEditedPostBeingScheduled( state ), evaluated at the instant now: the
\* edited date of the post is later than now.
isEditedPostBeingScheduled(s, now) ==
    LET date == getEditedPostAttribute(s, "date")
    IN  date # UNDEFINED /\ isBefore(now, date)

\* The selectors that read the clock.
ClockSelectors ==
    { "isCurrentPostPublished", "isCurrentPostScheduled", "isPublishingPost",
      "isEditedPostBeingScheduled" }

\* The clock does not go back from one reading to the next.
ClockNotBehind(now) == called \in ClockSelectors => ~isBefore(now, arg.now)

CallIsEditedPostBeingScheduled(now) ==
    /\ called' = "isEditedPostBeingScheduled"
    /\ arg' = [ now |-> now ]
    /\ calledOn' = Snapshot
    /\ result' = isEditedPostBeingScheduled(state, now)
    /\ UNCHANGED cache
    /\ UnchangedStore

\* cachedSelectors.forEach( ( { clear } ) => clear() )
ClearCachedSelectors ==
    /\ cache # NoCache
    /\ cache' = NoCache
    /\ UNCHANGED << called, arg, calledOn, result >>
    /\ UnchangedStore

\* The state of describe( 'getMultiSelectedBlocks' ): the two calls of the
\* test return the same reference.
MultiSelectedBlocksFixture_NewArray ==
    [ blocksByClientId |-> EmptyMap, blockOrder |-> EmptyMap,
      blockSelection |-> [ start |-> NULL, end |-> NULL ], post |-> NoPost,
      sameReference |-> FALSE ]
MultiSelectedBlocksFixture ==
    [ blocksByClientId |-> EmptyMap, blockOrder |-> EmptyMap,
      blockSelection |-> [ start |-> NULL, end |-> NULL ], post |-> NoPost,
      sameReference |-> TRUE ]

\* The states of describe( 'isEditedPostBeingScheduled' ): a date a week
\* after the instant of the test, which is the later date here, and the
\* old date, at the instants that follow it.
EditedDate(date) == [ NoPost EXCEPT !.edits.date = date ]
BeingScheduledFixtures ==
    { [ post |-> EditedDate(Dates[i + 1]), now |-> Dates[i], expected |-> TRUE ] :
        i \in 1..(Len(Dates) - 1) }
    \cup { [ post |-> EditedDate(PastDate), now |-> now, expected |-> FALSE ] :
             now \in { TestNow, FutureDate } }

\* The states the selectors are called on: a top-level list of paragraphs
\* with every selection, the heading and paragraph of the tests, and a post
\* of every status and date, with and without an edited date, idle or being
\* published.
PureOptimists ==
    { << >>,
      << TransactionOf(POST_UPDATE_TRANSACTION_ID, FALSE, "draft", UNDEFINED) >>,
      << TransactionOf(POST_UPDATE_TRANSACTION_ID, FALSE, "future", FutureDate) >> }

InitPure ==
    /\ \/ /\ \E n \in 0..MaxBlocks :
                /\ blockOrder = (ROOT :> [ i \in 1..n |-> ClientIdNames[i] ])
                                @@ [ id \in { ClientIdNames[i] : i \in 1..n } |-> << >> ]
                /\ blocksByClientId =
                       [ id \in { ClientIdNames[i] : i \in 1..n } |->
                           NamedBlock("core/paragraph") ]
                /\ blockSelection \in Selections(blockOrder)
          /\ post = NoPost
       \/ /\ \E f \in SelectedBlockFixtures : blockSelection = f.blockSelection
          /\ blocksByClientId = HeadingAndParagraph
          /\ blockOrder = HeadingAndParagraphOrder
          /\ post = NoPost
       \/ /\ blocksByClientId = MultiSelectedBlocksFixture.blocksByClientId
          /\ blockOrder = MultiSelectedBlocksFixture.blockOrder
          /\ blockSelection = MultiSelectedBlocksFixture.blockSelection
          /\ \E sd \in StatusesAndDates, date \in { UNDEFINED } \cup Range(Dates),
                optimist \in PureOptimists, requesting \in BOOLEAN :
                 post = [ PostOf(sd[1], sd[2]) EXCEPT !.edits.date = date,
                                                      !.optimist = optimist,
                                                      !.requesting = requesting ]
    /\ settings = NoSettings
    /\ blockListSettings = EmptyMap
    /\ insertUsage = EmptyMap
    /\ reusableBlocks = EmptyMap
    /\ refs = NoRefs
    /\ cache = NoCache
    /\ NotCalled

\* The roots getInserterItems is called for: none, and the first block.
PureRoots == { UNDEFINED } \cup (DOMAIN blocksByClientId \cap { ClientIdNames[1] })

NextPure ==
    \/ \E keep \in BOOLEAN : CallGetMultiSelectedBlocks(keep)
    \/ CallGetMultiSelectedBlockClientIds
    \/ CallGetBlockInsertionPoint
    \/ CallHasSelectedBlock
    \/ CallGetSelectedBlockClientId
    \/ CallGetSelectedBlock
    \/ CallGetSuggestedPostFormat
    \/ \E blockName \in { "core/test-block-a", "core/test-block-c" } :
           CallCanInsertBlockType(blockName, UNDEFINED)
    \/ \E rootClientId \in PureRoots : CallGetInserterItems(rootClientId)
    \/ CallIsEditedPostDirty
    \/ CallIsEditedPostPublishable
    \/ CallIsEditedPostSaveable
    \/ CallIsEditedPostAutosaveable
    \/ \E i \in 1..Len(Dates) :
           ClockNotBehind(Dates[i]) /\ CallIsCurrentPostPublished(Dates[i])
    \/ \E i \in 1..Len(Dates) :
           ClockNotBehind(Dates[i]) /\ CallIsCurrentPostScheduled(Dates[i])
    \/ \E i \in 1..Len(Dates) :
           ClockNotBehind(Dates[i]) /\ CallIsPublishingPost(Dates[i])
    \/ \E i \in 1..Len(Dates) :
           ClockNotBehind(Dates[i]) /\ CallIsEditedPostBeingScheduled(Dates[i])
    \/ ClearCachedSelectors

SpecPure == InitPure /\ [][NextPure]_vars

\* ---------------------------------------------------------------- C17
\* The arguments a call passes: a selector that reads the clock takes none,
\* the instant it read is not one of them.
ArgumentsOf(selector, argument) ==
    IF selector \in ClockSelectors THEN UNDEFINED ELSE argument

\* What a call returned, as a value: of an array, its elements.
ValueOf(selector, returned) ==
    IF selector = "getInserterItems" THEN returned.items
    ELSE IF selector = "getMultiSelectedBlocks" THEN returned.blocks
    ELSE returned

\* No step changes the store state.
StateUnchanged == state' = state

\* The previous call and this one are of the same selector, on the same
\* state.
SameSelectorAndState ==
    /\ called # "none"
    /\ called' = called
    /\ calledOn'.state = calledOn.state

\* getMultiSelectedBlocks, called twice in a row on a state with an empty
\* selection, returns the same reference; and the two calls of the test
\* compare as the test expects.
EmptySelectionSameReference ==
    ( /\ called = "getMultiSelectedBlocks"
      /\ called' = "getMultiSelectedBlocks"
      /\ calledOn'.state = calledOn.state ) =>
        /\ getMultiSelectedBlockClientIds(state) = << >> => result'.ref = result.ref
        /\ ( /\ blocksByClientId = MultiSelectedBlocksFixture.blocksByClientId
             /\ blockOrder = MultiSelectedBlocksFixture.blockOrder
             /\ blockSelection = MultiSelectedBlocksFixture.blockSelection
             /\ post = MultiSelectedBlocksFixture.post ) =>
               (result'.ref = result.ref) = MultiSelectedBlocksFixture.sameReference

\* The call of isEditedPostBeingScheduled returned what the tests expect.
MeetsBeingScheduledFixtures ==
    called = "isEditedPostBeingScheduled" =>
        \A f \in BeingScheduledFixtures :
            (post = f.post /\ arg.now = f.now) => result = f.expected

====
